---- MODULE Spec2Model ----
(***************************************************************************)
(* TaskFlow: the CalDAV synchronisation route (src/app/api/sync/route.ts,  *)
(* the discovery + REPORT variant, lines 403-935), the calendar-account    *)
(* route and the ExternalEvent / CalendarAccount store they share.         *)
(*                                                                         *)
(* Strings that the code takes apart (URLs, hrefs) are sequences of        *)
(* tokens, "/" being a token of its own, so that endsWith, slice, the      *)
(* template literals and new URL(...) are computed as the code does.       *)
(* Instants are integers in seconds (the code's Date values are ms).       *)
(***************************************************************************)
EXTENDS Integers, Sequences, FiniteSets, TLC

(***************************** bounds **************************************)
\* The wall clock runs from T0 to T0 + MaxClock.
MaxClock == 1
\* Most <D:response> blocks in one PROPFIND multi-status body.
MaxCals == 2
\* Most VEVENTs in one REPORT body.
MaxEvents == 2
\* Most property lines in one VEVENT.
MaxLines == 3
\* Most Task rows in the store.
MaxTasks == 2

(************************** program constants ******************************)
\* 24 * 60 * 60 seconds: the unit of rangeStart / rangeEnd and the all-day default.
DaySecs == 86400
\* 60 * 60 seconds: the default length of a timed event.
HourSecs == 3600
\* rangeStart = now - 1 day, rangeEnd = now + 30 days.
WindowBackDays == 1
WindowFwdDays == 30

Users == {"u1", "u2"}
\* the user of the specifications in which one user acts
SoleUser == {"u1"}
NoUser == "anonymous"
None == [none |-> TRUE]
\* lastSynced DateTime? : null until the first successful sync
NeverSynced == -1

(****************************** strings ************************************)
Origin == "https://h"
Slash == "/"
UserName == "u"

EndsWithSlash(s) == Len(s) > 0 /\ s[Len(s)] = Slash
StartsWithSlash(s) == Len(s) > 0 /\ s[1] = Slash
DropLast(s) == SubSeq(s, 1, Len(s) - 1)

\* new URL(s) succeeds: s starts with scheme://host.
IsUrl(s) == Len(s) > 0 /\ s[1] = Origin

\* faulty variant: the trailing "/" is kept
CleanUrl_KeepsSlash(s) == s

\* cleanUrl of getBaseUrl / generateCalendarHomeUrls: one trailing "/" removed.
CleanUrl(s) == IF EndsWithSlash(s) THEN DropLast(s) ELSE s

getBaseUrl(originalUrl) ==
    LET cleanUrl == CleanUrl(originalUrl)
    IN  IF IsUrl(cleanUrl) THEN <<cleanUrl[1]>> ELSE cleanUrl

\* Array.from(new Set(...)): insertion order, later duplicates dropped.
RECURSIVE SetOrder(_)
SetOrder(s) ==
    IF s = <<>> THEN <<>>
    ELSE LET init == SetOrder(DropLast(s))
             x == s[Len(s)]
         IN  IF \E i \in 1..Len(init) : init[i] = x THEN init ELSE Append(init, x)

generateCalendarHomeUrls(originalUrl, username) ==
    LET cleanUrl == CleanUrl(originalUrl)
        baseUrl == getBaseUrl(cleanUrl)
    IN  SetOrder(<< cleanUrl \o <<Slash>>,
                    baseUrl \o <<Slash, "dav", Slash, username, Slash>>,
                    baseUrl \o <<Slash, "caldav", Slash, username, Slash>>,
                    baseUrl \o <<Slash, "calendars", Slash, username, Slash>>,
                    baseUrl \o <<Slash, "principals", Slash, "users", Slash, username, Slash>> >>)

resolveCalendarUrl(baseUrl, href) ==
    IF StartsWithSlash(href)
    THEN IF IsUrl(baseUrl) THEN <<baseUrl[1]>> \o href ELSE baseUrl \o href
    ELSE IF EndsWithSlash(baseUrl) THEN baseUrl \o href ELSE baseUrl \o <<Slash>> \o href

(******************************* events ************************************)
T0 == 40 * DaySecs

\* The VEVENTs a server may return, as parseICSEvents decodes them.
Ev(id, summary, start) ==
    [id |-> id, summary |-> summary, start |-> start, end |-> start + HourSecs,
     isAllDay |-> FALSE]
EvA1 == Ev("a", "A", T0 + HourSecs)
\* same identifier and start as EvA1, another title
EvA1x == Ev("a", "Ax", T0 + HourSecs)
\* same identifier as EvA1, another start (an expanded recurrence)
EvA2 == Ev("a", "A'", T0 + 2 * HourSecs)
EvB1 == Ev("b", "B", T0 + HourSecs)
\* outside every sync window of the model
EvBFar == Ev("b", "B", T0 + 31 * DaySecs)
EventPool == {EvA1, EvA1x, EvA2, EvB1, EvBFar}
\* ends one second after T0 - 1 day, the rangeStart of a run at T0
EvEdgeLo == Ev("lo", "Lo", T0 - WindowBackDays * DaySecs + 1 - HourSecs)
\* starts at T0 + 30 days, the rangeEnd of a run at T0
EvEdgeHi == Ev("hi", "Hi", T0 + WindowFwdDays * DaySecs)

SeqsUpTo(S, n) == UNION {[1..k -> S] : k \in 0..n}

\* faulty variant: events that touch an edge of the window are kept
InWindow_Closed(e, rangeStart, rangeEnd) == ~(e.end < rangeStart \/ e.start > rangeEnd)

\* event.end <= rangeStart || event.start >= rangeEnd  -> dropped
InWindow(e, rangeStart, rangeEnd) == ~(e.end <= rangeStart \/ e.start >= rangeEnd)

\* `${event.id}-${event.start.getTime()}`
EventKey(e) == <<e.id, e.start>>

RECURSIVE FilterWindow(_, _, _)
FilterWindow(s, rangeStart, rangeEnd) ==
    IF s = <<>> THEN <<>>
    ELSE LET rest == FilterWindow(Tail(s), rangeStart, rangeEnd)
         IN  IF InWindow(Head(s), rangeStart, rangeEnd) THEN <<Head(s)>> \o rest ELSE rest

\* faulty variant: the last event of each key is kept
RECURSIVE DedupByKey_KeepLast(_)
DedupByKey_KeepLast(s) ==
    IF s = <<>> THEN <<>>
    ELSE IF \E i \in 2..Len(s) : EventKey(s[i]) = EventKey(Head(s))
         THEN DedupByKey_KeepLast(Tail(s))
         ELSE <<Head(s)>> \o DedupByKey_KeepLast(Tail(s))

\* the `seen` set: the first event of each key is kept, later ones dropped
RECURSIVE DedupByKey(_)
DedupByKey(s) ==
    IF s = <<>> THEN <<>>
    ELSE LET init == DedupByKey(DropLast(s))
             e == s[Len(s)]
         IN  IF \E i \in 1..Len(init) : EventKey(init[i]) = EventKey(e)
             THEN init ELSE Append(init, e)

\* Array.prototype.sort((a, b) => a.start - b.start): stable
RECURSIVE InsertByStart(_, _)
InsertByStart(sorted, e) ==
    IF sorted = <<>> THEN <<e>>
    ELSE IF sorted[Len(sorted)].start <= e.start THEN Append(sorted, e)
    ELSE Append(InsertByStart(DropLast(sorted), e), sorted[Len(sorted)])

RECURSIVE SortByStart(_)
SortByStart(s) ==
    IF s = <<>> THEN <<>> ELSE InsertByStart(SortByStart(DropLast(s)), s[Len(s)])

parseCalDavResponse(events, rangeStart, rangeEnd) ==
    SortByStart(DedupByKey(FilterWindow(events, rangeStart, rangeEnd)))

RangeStart(now) == now - WindowBackDays * DaySecs
RangeEnd(now) == now + WindowFwdDays * DaySecs

(************************** iCalendar parsing ******************************)
\* data.start / data.end before a DTSTART / DTEND line was read (null)
NoDate == -1

\* UID / SUMMARY values: the text after the colon, trimmed
TextValue(text) == [text |-> text]
\* The zone of the server process: local time is UTC + TzOffset seconds.
TzOffset == 3600
\* DTSTART / DTEND values by shape, with the VALUE parameter of their line:
\*   "utc"     yyyymmddThhmmssZ        "local"   yyyymmddThhmmss
\*   "date"    yyyymmdd                "baddate" eight digits that are no date
\*   "other"   text of another shape that new Date() reads
\*   "bad"     text of another shape that new Date() cannot read
\* t is the reading of the digits in seconds (for "other": the instant).
HintedValue(form, t, hint) == [form |-> form, t |-> t, hint |-> hint]
DateValue(form, t) == HintedValue(form, t, "")
\* DURATION values: the groups of /^P(\d+D)?(T(\d+H)?(\d+M)?(\d+S)?)?$/, or
\* text the expression does not match
DurationValue(days, hours, minutes, seconds) ==
    [matches |-> TRUE, days |-> days, hours |-> hours, minutes |-> minutes,
     seconds |-> seconds]
BadDuration == [matches |-> FALSE]

\* faulty variant: a date without time is read as UTC midnight
parseICalDate_UtcMidnight(value) ==
    [date |-> IF value.form \in {"bad", "baddate"} THEN NoDate
              ELSE IF value.form = "local" THEN value.t - TzOffset
              ELSE value.t,
     isAllDay |-> value.hint = "DATE" \/ value.form \in {"date", "baddate"}]

parseICalDate(value) ==
    [date |-> IF value.form \in {"bad", "baddate"} THEN NoDate
              ELSE IF value.form \in {"local", "date"} THEN value.t - TzOffset
              ELSE value.t,
     isAllDay |-> value.hint = "DATE" \/ value.form \in {"date", "baddate"}]

\* faulty variant: the days of the duration are left out
addDuration_NoDays(startDate, duration) ==
    IF ~duration.matches THEN startDate
    ELSE startDate + (duration.hours * 60 * 60 + duration.minutes * 60 + duration.seconds)

addDuration(startDate, duration) ==
    IF ~duration.matches THEN startDate
    ELSE startDate + ((duration.days * 24 + duration.hours) * 60 * 60
                       + duration.minutes * 60 + duration.seconds)

\* A DURATION text by its parts: sign, nW, nD, the letter T, nH, nM, nS
\* (Absent: the part is not written).
Absent == -1
DurationText(sign, weeks, days, hasT, hours, minutes, seconds) ==
    [sign |-> sign, weeks |-> weeks, days |-> days, hasT |-> hasT,
     hours |-> hours, minutes |-> minutes, seconds |-> seconds]
\* Number(match[i] || 0)
GroupNumber(part) == IF part = Absent THEN 0 ELSE part
\* durationStr.match(/^P(?:(\d+)D)?(?:T(?:(\d+)H)?(?:(\d+)M)?(?:(\d+)S)?)?$/)
MatchDuration(text) ==
    IF /\ text.sign = ""
       /\ text.weeks = Absent
       /\ (text.hasT \/ (text.hours = Absent /\ text.minutes = Absent /\ text.seconds = Absent))
    THEN DurationValue(GroupNumber(text.days), GroupNumber(text.hours),
                       GroupNumber(text.minutes), GroupNumber(text.seconds))
    ELSE BadDuration

Line(name, value) == [name |-> name, value |-> value]

\* faulty variant: a DURATION line replaces an end already read
ReadLine_DurationOverrides(data, line) ==
    IF line.name = "SUMMARY" THEN [data EXCEPT !.summary = line.value.text]
    ELSE IF line.name = "UID" THEN [data EXCEPT !.uid = line.value.text]
    ELSE IF line.name = "DTSTART"
    THEN [data EXCEPT !.start = parseICalDate(line.value).date,
                      !.isAllDay = @ \/ parseICalDate(line.value).isAllDay]
    ELSE IF line.name = "DTEND"
    THEN [data EXCEPT !.end = parseICalDate(line.value).date,
                      !.isAllDay = @ \/ parseICalDate(line.value).isAllDay]
    ELSE IF line.name = "DURATION" /\ data.start # NoDate
    THEN [data EXCEPT !.end = addDuration(data.start, line.value)]
    ELSE data

\* faulty variant: the last DTSTART / DTEND line decides the all-day flag
ReadLine_LastLineDecides(data, line) ==
    IF line.name = "SUMMARY" THEN [data EXCEPT !.summary = line.value.text]
    ELSE IF line.name = "UID" THEN [data EXCEPT !.uid = line.value.text]
    ELSE IF line.name = "DTSTART"
    THEN [data EXCEPT !.start = parseICalDate(line.value).date,
                      !.isAllDay = parseICalDate(line.value).isAllDay]
    ELSE IF line.name = "DTEND"
    THEN [data EXCEPT !.end = parseICalDate(line.value).date,
                      !.isAllDay = parseICalDate(line.value).isAllDay]
    ELSE IF line.name = "DURATION" /\ data.start # NoDate /\ data.end = NoDate
    THEN [data EXCEPT !.end = addDuration(data.start, line.value)]
    ELSE data

\* the body of lines.forEach in parseSingleVEvent
ReadLine(data, line) ==
    IF line.name = "SUMMARY" THEN [data EXCEPT !.summary = line.value.text]
    ELSE IF line.name = "UID" THEN [data EXCEPT !.uid = line.value.text]
    ELSE IF line.name = "DTSTART"
    THEN [data EXCEPT !.start = parseICalDate(line.value).date,
                      !.isAllDay = @ \/ parseICalDate(line.value).isAllDay]
    ELSE IF line.name = "DTEND"
    THEN [data EXCEPT !.end = parseICalDate(line.value).date,
                      !.isAllDay = @ \/ parseICalDate(line.value).isAllDay]
    ELSE IF line.name = "DURATION" /\ data.start # NoDate /\ data.end = NoDate
    THEN [data EXCEPT !.end = addDuration(data.start, line.value)]
    ELSE data

RECURSIVE ReadLines(_, _)
ReadLines(data, lines) ==
    IF lines = <<>> THEN data ELSE ReadLines(ReadLine(data, Head(lines)), Tail(lines))

\* faulty variant: the synthetic end is one hour for every event
parseSingleVEvent_HourDefault(lines) ==
    LET data == ReadLines([summary |-> "", start |-> NoDate, end |-> NoDate,
                           isAllDay |-> FALSE, uid |-> ""], lines)
        end == IF data.end # NoDate THEN data.end ELSE data.start + HourSecs
    IN  IF lines = <<>> \/ data.start = NoDate THEN None
        ELSE [id |-> IF data.uid # "" THEN data.uid ELSE "event-" \o ToString(data.start),
              summary |-> IF data.summary # "" THEN data.summary ELSE "Untitled Event",
              start |-> data.start, end |-> end, isAllDay |-> data.isAllDay]

\* faulty variant: the identifier of a VEVENT without UID is made of its title
parseSingleVEvent_IdFromSummary(lines) ==
    LET data == ReadLines([summary |-> "", start |-> NoDate, end |-> NoDate,
                           isAllDay |-> FALSE, uid |-> ""], lines)
        end == IF data.end # NoDate THEN data.end
               ELSE IF data.isAllDay THEN data.start + DaySecs
               ELSE data.start + HourSecs
    IN  IF lines = <<>> \/ data.start = NoDate THEN None
        ELSE [id |-> IF data.uid # "" THEN data.uid ELSE "event-" \o data.summary,
              summary |-> IF data.summary # "" THEN data.summary ELSE "Untitled Event",
              start |-> data.start, end |-> end, isAllDay |-> data.isAllDay]

\* parseSingleVEvent: the event of a VEVENT's lines, or None (null)
parseSingleVEvent(lines) ==
    LET data == ReadLines([summary |-> "", start |-> NoDate, end |-> NoDate,
                           isAllDay |-> FALSE, uid |-> ""], lines)
        end == IF data.end # NoDate THEN data.end
               ELSE IF data.isAllDay THEN data.start + DaySecs
               ELSE data.start + HourSecs
    IN  IF lines = <<>> \/ data.start = NoDate THEN None
        ELSE [id |-> IF data.uid # "" THEN data.uid ELSE "event-" \o ToString(data.start),
              summary |-> IF data.summary # "" THEN data.summary ELSE "Untitled Event",
              start |-> data.start, end |-> end, isAllDay |-> data.isAllDay]

\* faulty variant: the VEVENTs behind one that gives null are lost
RECURSIVE parseICSEvents_StopsAtNull(_)
parseICSEvents_StopsAtNull(vevents) ==
    IF vevents = <<>> THEN <<>>
    ELSE LET e == parseSingleVEvent(Head(vevents))
         IN  IF e = None THEN <<>>
             ELSE <<e>> \o parseICSEvents_StopsAtNull(Tail(vevents))

\* parseICSEvents: the VEVENTs of one calendar-data node, nulls filtered out
RECURSIVE parseICSEvents(_)
parseICSEvents(vevents) ==
    IF vevents = <<>> THEN <<>>
    ELSE LET e == parseSingleVEvent(Head(vevents))
         IN  IF e = None THEN parseICSEvents(Tail(vevents))
             ELSE <<e>> \o parseICSEvents(Tail(vevents))

\* The lines of an iCalendar text that open and close a VEVENT.
BeginVEvent == Line("BEGIN", TextValue("VEVENT"))
EndVEvent == Line("END", TextValue("VEVENT"))

\* chunk.split("END:VEVENT")[0]: the lines before the first END:VEVENT
RECURSIVE BeforeEnd(_)
BeforeEnd(chunk) ==
    IF chunk = <<>> \/ Head(chunk) = EndVEvent THEN <<>>
    ELSE <<Head(chunk)>> \o BeforeEnd(Tail(chunk))

\* unfolded.split("BEGIN:VEVENT"): the pieces between the BEGIN:VEVENT lines
RECURSIVE SplitAtBegin(_)
SplitAtBegin(text) ==
    IF text = <<>> THEN << <<>> >>
    ELSE LET rest == SplitAtBegin(Tail(text))
         IN  IF Head(text) = BeginVEvent THEN << <<>> >> \o rest
             ELSE << <<Head(text)>> \o Head(rest) >> \o Tail(rest)

\* .split("BEGIN:VEVENT").slice(1).map(chunk => chunk.split("END:VEVENT")[0])
SplitVEvents(text) ==
    LET chunks == Tail(SplitAtBegin(text))
    IN  [i \in 1..Len(chunks) |-> BeforeEnd(chunks[i])]

\* The property lines a server may send, and the VEVENTs made of them.
LinePool ==
    { Line("DTSTART", DateValue("utc", T0 + HourSecs)),
      Line("DTSTART", DateValue("date", T0)),
      Line("DTSTART", DateValue("bad", 0)),
      Line("DTEND", DateValue("utc", T0 + 2 * HourSecs)),
      Line("DTEND", DateValue("utc", T0 + HourSecs - 60)),
      Line("DURATION", DurationValue(0, 1, 30, 0)),
      Line("DURATION", DurationValue(0, 0, 0, 0)),
      Line("DURATION", BadDuration) }
VEvents == SeqsUpTo(LinePool, MaxLines)
\* the decoded calendar-data of REPORT bodies that hold one VEVENT
VEventBodies == {parseICSEvents(<<vevent>>) : vevent \in VEvents}

(**************************** the server ***********************************)
\* HTTP status of a response; 0 stands for fetch() throwing (transport failure).
TransportFailure == 0
Statuses == {207, 401, 403, 404, TransportFailure}
\* res.ok
IsOk(status) == status >= 200 /\ status <= 299

\* hrefs of the <D:response> blocks: root-relative and relative
Hrefs == { <<Slash, "cal", Slash, "work", Slash>>, <<"home", Slash>> }
\* one <D:response> block: its href and whether its resourcetype holds <C:calendar/>
Entries == [href : Hrefs, isCalendar : BOOLEAN]
\* multi-status bodies: every resource is listed once
Listings ==
    {l \in SeqsUpTo(Entries, MaxCals) :
        \A i, j \in 1..Len(l) : i # j => l[i].href # l[j].href}
Bodies == SeqsUpTo(EventPool, MaxEvents)

\* The responses a server may give. The body of a failed response is never
\* read, so one (empty) body stands for all of them.
PropfindResponses ==
    {rsp \in [status : Statuses, listing : Listings] :
        IsOk(rsp.status) \/ rsp.listing = <<>>}
ReportResponses ==
    {rsp \in [status : Statuses, body : Bodies] :
        IsOk(rsp.status) \/ rsp.body = <<>>}

\* The REPORT bodies of the candidate-search specification: no event, only an
\* event outside the window, one event, two events of distinct identifiers.
SearchBodies == { <<>>, <<EvBFar>>, <<EvA1>>, <<EvA1, EvB1>> }
SearchReports ==
    {rsp \in ReportResponses : rsp.body \in SearchBodies}

\* The responses of the reconciliation specification: discovery finds
\* calendars at the first candidate, every REPORT succeeds with at least one
\* event inside the window.
StorePropfinds ==
    {rsp \in PropfindResponses :
        /\ rsp.status = 207
        /\ rsp.listing # <<>>
        /\ \A i \in 1..Len(rsp.listing) : rsp.listing[i].isCalendar}
StoreReports ==
    {rsp \in ReportResponses :
        /\ rsp.status = 207
        /\ rsp.body # <<>>
        /\ \A i \in 1..Len(rsp.body) : rsp.body[i] # EvBFar}

RECURSIVE CalendarsOf(_)
CalendarsOf(listing) ==
    IF listing = <<>> THEN <<>>
    ELSE IF Head(listing).isCalendar
         THEN <<Head(listing)>> \o CalendarsOf(Tail(listing))
         ELSE CalendarsOf(Tail(listing))

\* the calendars discoverCalendars returns for a response (status, listing)
discoverCalendars(status, listing) ==
    IF status = TransportFailure THEN <<>>
    ELSE IF ~IsOk(status) THEN <<>>
    ELSE CalendarsOf(listing)

\* faulty variant: a failed REPORT counts as a successful empty one
queryCalendarEvents_FailureCounts(status, body, rangeStart, rangeEnd) ==
    IF status = TransportFailure THEN [events |-> <<>>, success |-> TRUE]
    ELSE IF ~IsOk(status) THEN [events |-> <<>>, success |-> TRUE]
    ELSE [events |-> parseCalDavResponse(body, rangeStart, rangeEnd), success |-> TRUE]

\* what queryCalendarEvents returns for a response (status, body)
queryCalendarEvents(status, body, rangeStart, rangeEnd) ==
    IF status = TransportFailure THEN [events |-> <<>>, success |-> FALSE]
    ELSE IF ~IsOk(status) THEN [events |-> <<>>, success |-> FALSE]
    ELSE [events |-> parseCalDavResponse(body, rangeStart, rangeEnd), success |-> TRUE]

(****************************** the store **********************************)
VARIABLES
    clock,      \* the wall clock (new Date())
    accounts,   \* CalendarAccount rows: userId -> account or None (userId @unique)
    rows,       \* ExternalEvent rows
    run,        \* the locals of each POST /api/sync invocation in progress
    resp,       \* the response each invocation returned
    ghost,      \* history of each invocation, read only by the properties
                \* (reports: the REPORT answers at the home URL being queried;
                \* failed: the first calendar of the last home URL queried whose
                \* REPORT failed, 0 when none did;
                \* received: the events its REPORTs returned, in or out of the window;
                \* threw: the store call that threw, "none" when none did)
    server,     \* the answers of a CalDAV server that answers each request one way
    tasks,      \* Task rows
    reply,      \* the last response of the account, task and external-events routes
    page,       \* the state of the main page in the first user's browser
    parser      \* a call of one of the parsing functions: its arguments and,
                \* once it returned, its result

vars == <<clock, accounts, rows, run, resp, ghost, server, tasks, reply, page, parser>>

Slots == {1, 2}
NoUrl == <<>>
NoReq == [method |-> "none", url |-> NoUrl]
NoResp == [kind |-> "none"]
\* no fixed server: every request may be answered in any way
NoServer == <<>>
Reply(kind) == [kind |-> kind]
NoReply == Reply("none")
\* const [activeId, setActiveId] = useState<string | null>(null)
NoDrag == 0
NoPage ==
    [activeId |-> NoDrag, isOpen |-> FALSE, syncing |-> FALSE, account |-> None,
     error |-> FALSE]
\* no parsing function is being followed
NoCall == [fn |-> "none"]

\* @id @default(uuid()): an id no present row carries
FreshRowId == CHOOSE i \in 1..(Cardinality(rows) + 1) : \A r \in rows : r.id # i
FreshAccountId ==
    CHOOSE i \in 1..(Cardinality(Users) + 1) :
        \A u \in Users : accounts[u] = None \/ accounts[u].id # i

\* the serverUrl values a user may submit (z.string().url())
ServerUrls == { <<Origin, Slash, "dav", Slash, UserName>> }

IdleRun ==
    [pc |-> "idle", user |-> NoUser, account |-> None, now |-> 0,
     homeUrls |-> <<>>, hIdx |-> 0, calendars |-> <<>>, cIdx |-> 0,
     allEvents |-> <<>>, successUrl |-> NoUrl, discoveredAnyCalendar |-> FALSE,
     events |-> <<>>, eIdx |-> 0, existingEvent |-> None, syncedEvents |-> 0,
     req |-> NoReq]

IdleGhost ==
    [probes |-> <<>>, sawCalendars |-> FALSE, returned |-> 0,
     firstCalHome |-> 0, firstEventHome |-> 0, startedAt |-> 0,
     preRows |-> {}, preAccounts |-> [u \in Users |-> None],
     reports |-> <<>>, failed |-> 0, received |-> 0, threw |-> "none"]

Init ==
    /\ clock = T0
    /\ accounts = [u \in Users |-> None]
    /\ rows = {}
    /\ run = [s \in Slots |-> IdleRun]
    /\ resp = [s \in Slots |-> NoResp]
    /\ ghost = [s \in Slots |-> IdleGhost]
    /\ server = NoServer
    /\ tasks = {}
    /\ reply = NoReply
    /\ page = NoPage
    /\ parser = NoCall

(************************ time and the account route ***********************)
Tick ==
    /\ clock < T0 + MaxClock
    /\ clock' = clock + 1
    /\ UNCHANGED <<accounts, rows, run, resp, ghost, server, tasks, reply, page, parser>>

NoRunActive == \A s \in Slots : run[s].pc = "idle"

\* faulty variant: create replaces the account the user already has
AccountCreate_Overwrite(u, account) ==
    [ok |-> TRUE, accounts |-> [accounts EXCEPT ![u] = account]]

\* prisma.calendarAccount.create: userId is @unique, so a create for a user
\* who has an account throws P2002 and stores nothing.
AccountCreate(u, account) ==
    IF accounts[u] # None THEN [ok |-> FALSE, accounts |-> accounts]
    ELSE [ok |-> TRUE, accounts |-> [accounts EXCEPT ![u] = account]]

\* POST /api/calendar-account of session user u (NoUser: no session)
CreateAccount(u, serverUrl) ==
    /\ NoRunActive
    /\ IF u = NoUser
       THEN accounts' = accounts /\ reply' = Reply("unauthorized")
       ELSE IF ~IsUrl(serverUrl)
       THEN accounts' = accounts /\ reply' = Reply("invalid-data")
       ELSE LET created == AccountCreate(u,
                              [id |-> FreshAccountId, userId |-> u, serverUrl |-> serverUrl,
                               username |-> UserName, password |-> "secret",
                               color |-> "#A0A0A0", lastSynced |-> NeverSynced])
            IN  /\ accounts' = created.accounts
                /\ reply' = IF created.ok
                            THEN [kind |-> "created", account |-> created.accounts[u]]
                            ELSE Reply("already-exists")
    /\ UNCHANGED <<clock, rows, run, resp, ghost, server, tasks, page, parser>>

\* DELETE /api/calendar-account of session user u: findUnique, 404 when there
\* is none, else delete; the account's ExternalEvents go with it
\* (onDelete: Cascade).
DeleteAccount(u) ==
    /\ NoRunActive
    /\ IF u = NoUser
       THEN /\ reply' = Reply("unauthorized")
            /\ UNCHANGED <<accounts, rows>>
       ELSE IF accounts[u] = None
       THEN /\ reply' = Reply("account-not-found")
            /\ UNCHANGED <<accounts, rows>>
       ELSE /\ accounts' = [accounts EXCEPT ![u] = None]
            /\ rows' = {r \in rows : r.accountId # accounts[u].id}
            /\ reply' = Reply("deleted")
    /\ UNCHANGED <<clock, run, resp, ghost, server, tasks, page, parser>>

(************************* GET /api/external-events ************************)
\* faulty variant: the where clause is missing
FindManyEvents_All(accountId) ==
    {q \in [1..Cardinality(rows) -> rows] :
        /\ \A i, j \in DOMAIN q : i # j => q[i] # q[j]
        /\ \A i, j \in DOMAIN q : i < j => q[i].startAt <= q[j].startAt}

\* prisma.externalEvent.findMany({where: {accountId}, orderBy: {startAt: "asc"}}):
\* the lists it may return (rows of equal startAt come in any order)
FindManyEvents(accountId) ==
    LET mine == {x \in rows : x.accountId = accountId}
    IN  {q \in [1..Cardinality(mine) -> mine] :
            /\ \A i, j \in DOMAIN q : i # j => q[i] # q[j]
            /\ \A i, j \in DOMAIN q : i < j => q[i].startAt <= q[j].startAt}

\* events.map(...): the fields of a row that the response carries
EventView(x) ==
    [id |-> x.id, title |-> x.title, startAt |-> x.startAt, endAt |-> x.endAt,
     isAllDay |-> x.isAllDay]

\* GET /api/external-events of session user u
GetExternalEvents(u) ==
    /\ IF u = NoUser THEN reply' = Reply("unauthorized")
       ELSE IF accounts[u] = None THEN reply' = [kind |-> "events", events |-> <<>>]
       ELSE \E q \in FindManyEvents(accounts[u].id) :
               reply' = [kind |-> "events", events |-> [i \in DOMAIN q |-> EventView(q[i])]]
    /\ UNCHANGED <<clock, accounts, rows, run, resp, ghost, server, tasks, page, parser>>

(***************************** the task routes *****************************)
TaskIds == 1..MaxTasks
\* @id @default(uuid()): an id no present task carries
FreshTaskId == CHOOSE i \in TaskIds : \A t \in tasks : t.id # i
\* the titles a request may carry; "" fails z.string().min(1)
Titles == {"", "t1", "t2"}
\* the bodies of PATCH: any subset of the fields (updateTaskSchema)
PatchData == [title : {"t2"}] \cup [completed : BOOLEAN] \cup [title : {"t1"}, completed : {TRUE}]

\* prisma.task.findUnique({where: {id}})
FindTask(id) == IF \E t \in tasks : t.id = id THEN CHOOSE t \in tasks : t.id = id ELSE None

\* faulty variant: the owner of the task is not compared with the session user
MayTouch_AnyUser(existingTask, u) == existingTask # None

\* !existingTask || existingTask.userId !== session.user.id  -> 404
MayTouch(existingTask, u) == existingTask # None /\ existingTask.userId = u

\* prisma.task.update({where: {id}, data: {...parsedData.data}})
UpdateTask(task, data) ==
    [f \in DOMAIN task |-> IF f \in DOMAIN data THEN data[f] ELSE task[f]]

\* POST /api/tasks of session user u (NoUser: no session)
CreateTask(u, title) ==
    /\ IF u = NoUser
       THEN tasks' = tasks /\ reply' = Reply("unauthorized")
       ELSE IF title = ""
       THEN tasks' = tasks /\ reply' = Reply("invalid-data")
       ELSE /\ Cardinality(tasks) < MaxTasks
            /\ LET task == [id |-> FreshTaskId, userId |-> u, title |-> title,
                             completed |-> FALSE, scheduledAt |-> NoDate]
               IN  /\ tasks' = tasks \cup {task}
                   /\ reply' = [kind |-> "task", task |-> task]
    /\ UNCHANGED <<clock, accounts, rows, run, resp, ghost, server, page, parser>>

\* the PATCH handler: what it stores and answers
Patch(u, id, data) ==
    IF u = NoUser
    THEN tasks' = tasks /\ reply' = Reply("unauthorized")
    ELSE LET existingTask == FindTask(id)
         IN  IF ~MayTouch(existingTask, u)
             THEN tasks' = tasks /\ reply' = Reply("task-not-found")
             ELSE /\ tasks' = (tasks \ {existingTask}) \cup {UpdateTask(existingTask, data)}
                  /\ reply' = [kind |-> "task", task |-> UpdateTask(existingTask, data)]

\* PATCH /api/tasks/[id] of session user u
PatchTask(u, id, data) ==
    /\ Patch(u, id, data)
    /\ UNCHANGED <<clock, accounts, rows, run, resp, ghost, server, page, parser>>

\* DELETE /api/tasks/[id] of session user u
DeleteTask(u, id) ==
    /\ IF u = NoUser
       THEN tasks' = tasks /\ reply' = Reply("unauthorized")
       ELSE LET existingTask == FindTask(id)
            IN  IF ~MayTouch(existingTask, u)
                THEN tasks' = tasks /\ reply' = Reply("task-not-found")
                ELSE /\ tasks' = tasks \ {existingTask}
                     /\ reply' = Reply("deleted")
    /\ UNCHANGED <<clock, accounts, rows, run, resp, ghost, server, page, parser>>

(****************************** the main page ******************************)
\* the session user of the page
PageUser == "u1"
\* setHours(setMinutes(date, 0), 9): the hour given to a task dropped on a date
DropHour == 9
\* date-fns setMinutes / setHours on local time: the field is replaced, the
\* smaller fields (seconds) are kept
setMinutes(date, minutes) == date - ((date % HourSecs) \div 60) * 60 + minutes * 60
setHours(date, hours) == date - ((date % DaySecs) \div HourSecs) * HourSecs + hours * HourSecs

\* over.data.current of the droppables of the calendar
DateCell(date) == [type |-> "date", date |-> date]
TimeCell(date, hour) == [type |-> "time", date |-> date, hour |-> hour]
\* `over` is null: the pointer was released over no droppable; the task list
\* registers none
NoTarget == [type |-> "none"]
\* a day of the month and week views (a local midnight)
GridDay == T0 + DaySecs
\* currentDate of the day view: new Date() with its time of day
DayViewDate == T0 + 2 * DaySecs + 10 * HourSecs + 23 * 60 + 45
DropTargets == {DateCell(GridDay), TimeCell(GridDay, 14), TimeCell(DayViewDate, 8)}

\* the tasks TaskList wraps in DraggableTask: those not completed
Draggable == {t \in tasks : t.userId = PageUser /\ ~t.completed}

\* handleDropTask: the scheduledAt of the PATCH it sends
DropScheduledAt(over) ==
    IF over.type = "time" THEN setHours(setMinutes(over.date, 0), over.hour)
    ELSE setHours(setMinutes(over.date, 0), DropHour)

\* handleDragStart
DragStart(id) ==
    /\ page.activeId = NoDrag
    /\ \E t \in Draggable : t.id = id
    /\ page' = [page EXCEPT !.activeId = id]
    /\ UNCHANGED <<clock, accounts, rows, run, resp, ghost, server, tasks, reply, parser>>

\* handleDragEnd with the PATCH that handleDropTask sends, served at once
DragEnd(over) ==
    /\ page.activeId # NoDrag
    /\ page' = [page EXCEPT !.activeId = NoDrag]
    /\ IF over.type \in {"date", "time"}
       THEN Patch(PageUser, page.activeId, [scheduledAt |-> DropScheduledAt(over)])
       ELSE UNCHANGED <<tasks, reply>>
    /\ UNCHANGED <<clock, accounts, rows, run, resp, ghost, server, parser>>

(*************************** POST /api/sync ********************************)
Propfind(url) == [method |-> "PROPFIND", url |-> url]
Report(url) == [method |-> "REPORT", url |-> url]

\* faulty variant: the loop ends after the first home URL that had calendars
BreakAfterHome_AnyResult(allEvents) == Len(allEvents) >= 0

\* if (allEvents.length > 0) break
BreakAfterHome(allEvents) == Len(allEvents) > 0

\* faulty variant: the check after the loop is missing
NoCalendarsFound_Unchecked(discoveredAnyCalendar) == FALSE

\* if (!discoveredAnyCalendar) return 500
NoCalendarsFound(discoveredAnyCalendar) == ~discoveredAnyCalendar

\* if (success) { allEvents.push(...events); if (!successUrl) successUrl = homeUrl }
RecordSuccessUrl(successUrl, homeUrl) == IF successUrl = NoUrl THEN homeUrl ELSE successUrl

\* faulty variant: the comparison with the stored URL is inverted
NeedsUrlUpdate_Inverted(successUrl, serverUrl) ==
    successUrl # NoUrl /\ successUrl = serverUrl

\* if (successUrl && successUrl !== account.serverUrl)
NeedsUrlUpdate(successUrl, serverUrl) == successUrl # NoUrl /\ successUrl # serverUrl

\* the filter(...).sort(...) over allEvents
UniqueEvents(allEvents) == SortByStart(DedupByKey(allEvents))

\* faulty variant: the lookup leaves out the externalId
FindFirst_AnyOfAccount(accountId, externalId) ==
    {r \in rows : r.accountId = accountId}

\* faulty variant: the lookup compares the wrong column
FindFirst_ByTitle(accountId, externalId) ==
    {r \in rows : r.accountId = accountId /\ r.title = externalId}

\* prisma.externalEvent.findFirst({where: {accountId, externalId}}): the rows
\* it may return (no orderBy: any matching row)
FindFirst(accountId, externalId) ==
    {r \in rows : r.accountId = accountId /\ r.externalId = externalId}

\* prisma.externalEvent.update({where: {id}, data: {...}})
UpdateRow(r, event) ==
    [r EXCEPT !.title = event.summary, !.startAt = event.start,
              !.endAt = event.end, !.isAllDay = event.isAllDay]

\* faulty variant: the new row stores the title as its externalId
CreateRow_TitleAsId(id, accountId, event) ==
    [id |-> id, accountId |-> accountId, externalId |-> event.summary,
     title |-> event.summary, startAt |-> event.start, endAt |-> event.end,
     isAllDay |-> event.isAllDay]

\* prisma.externalEvent.create({data: {...}})
CreateRow(id, accountId, event) ==
    [id |-> id, accountId |-> accountId, externalId |-> event.id,
     title |-> event.summary, startAt |-> event.start, endAt |-> event.end,
     isAllDay |-> event.isAllDay]

\* NextResponse.json({success: true, syncedEvents, lastSyncedAt: now})
Success(syncedEvents, now) ==
    [kind |-> "success", syncedEvents |-> syncedEvents, lastSyncedAt |-> now]
Failure(kind) == [kind |-> kind]

\* faulty variant: a missing account is answered by the generic 500 of the catch block
NotConfiguredResponse_Generic == Failure("failed")

\* if (!account) return 400 "No calendar account configured"
NotConfiguredResponse == Failure("not-configured")

\* The code after the for loop over calendarHomeUrls, up to its next await.
\* Yields the locals and the response (NoResp while the run goes on).
\* allEvents is not read again once events is computed and is dropped.
AfterLoop(r) ==
    IF NoCalendarsFound(r.discoveredAnyCalendar)
    THEN [r |-> [r EXCEPT !.pc = "done", !.req = NoReq],
          resp |-> Failure("no-calendars")]
    ELSE LET events == UniqueEvents(r.allEvents)
         IN  [r |-> [r EXCEPT !.events = events, !.req = NoReq, !.allEvents = <<>>,
                              !.eIdx = IF events = <<>> THEN 0 ELSE 1,
                              !.pc = IF events # <<>> THEN "find"
                                     ELSE IF NeedsUrlUpdate(r.successUrl, r.account.serverUrl)
                                          THEN "saveUrl" ELSE "stamp"],
              resp |-> NoResp]

\* faulty variant: the loop does not advance to the next home URL
NextHome_Stays(r) ==
    [r |-> [r EXCEPT !.calendars = <<>>, !.cIdx = 0, !.pc = "discover",
                     !.req = Propfind(r.homeUrls[r.hIdx])],
     resp |-> NoResp]

\* `continue` / the end of one iteration of the loop over calendarHomeUrls
NextHome(r) ==
    IF r.hIdx < Len(r.homeUrls)
    THEN [r |-> [r EXCEPT !.hIdx = @ + 1, !.calendars = <<>>, !.cIdx = 0,
                          !.pc = "discover",
                          !.req = Propfind(r.homeUrls[r.hIdx + 1])],
          resp |-> NoResp]
    ELSE AfterLoop([r EXCEPT !.calendars = <<>>, !.cIdx = 0])

\* a request without a session: 401, nothing is read
SyncUnauthorized(s) ==
    /\ run[s].pc = "idle"
    /\ run' = [run EXCEPT ![s] = [IdleRun EXCEPT !.pc = "done"]]
    /\ resp' = [resp EXCEPT ![s] = Failure("unauthorized")]
    /\ ghost' = [ghost EXCEPT ![s] =
                   [IdleGhost EXCEPT !.preRows = rows, !.preAccounts = accounts]]
    /\ UNCHANGED <<clock, accounts, rows, server, tasks, reply, page, parser>>

\* auth(), findUnique, now, the window, the candidate list, the first PROPFIND
StartRun(s, u) ==
    /\ run[s].pc = "idle"
    /\ ghost' = [ghost EXCEPT ![s] =
                   [IdleGhost EXCEPT !.preRows = rows, !.preAccounts = accounts,
                      !.startedAt = clock,
                      !.probes = IF accounts[u] = None THEN <<>>
                                 ELSE <<generateCalendarHomeUrls(
                                          accounts[u].serverUrl, accounts[u].username)[1]>>]]
    /\ IF accounts[u] = None
       THEN /\ run' = [run EXCEPT ![s] = [IdleRun EXCEPT !.pc = "done", !.user = u]]
            /\ resp' = [resp EXCEPT ![s] = NotConfiguredResponse]
       ELSE LET homeUrls == generateCalendarHomeUrls(
                                accounts[u].serverUrl, accounts[u].username)
            IN  /\ run' = [run EXCEPT ![s] =
                             [IdleRun EXCEPT !.pc = "discover", !.user = u,
                                !.account = accounts[u], !.now = clock,
                                !.homeUrls = homeUrls, !.hIdx = 1,
                                !.req = Propfind(homeUrls[1])]]
                /\ resp' = [resp EXCEPT ![s] = NoResp]
    /\ UNCHANGED <<clock, accounts, rows, server, tasks, reply, parser>>

\* POST /api/sync sent by another client than the settings modal
SyncStart(s, u) == StartRun(s, u) /\ UNCHANGED page

\* the PROPFIND of homeUrls[hIdx] is answered with (status, listing)
Discover(s, status, listing) ==
    LET r == run[s]
        calendars == discoverCalendars(status, listing)
        next == IF Len(calendars) = 0 THEN NextHome(r)
                ELSE [r |-> [r EXCEPT !.calendars = calendars, !.cIdx = 1,
                                !.discoveredAnyCalendar = TRUE, !.pc = "query",
                                !.req = Report(resolveCalendarUrl(
                                           r.homeUrls[r.hIdx], calendars[1].href))],
                      resp |-> NoResp]
    IN  /\ r.pc = "discover"
        /\ run' = [run EXCEPT ![s] = next.r]
        /\ resp' = [resp EXCEPT ![s] = next.resp]
        /\ ghost' = [ghost EXCEPT ![s] =
              [@ EXCEPT !.sawCalendars = @ \/ (IsOk(status) /\ CalendarsOf(listing) # <<>>),
                        !.firstCalHome = IF @ = 0 /\ IsOk(status) /\ CalendarsOf(listing) # <<>>
                                         THEN r.hIdx ELSE @,
                        !.probes = IF next.r.pc = "discover"
                                   THEN Append(@, next.r.req.url) ELSE @]]
        /\ UNCHANGED <<clock, accounts, rows, server, tasks, reply, page, parser>>

\* the REPORT of calendars[cIdx] is answered with (status, body)
Query(s, status, body) ==
    LET r == run[s]
        homeUrl == r.homeUrls[r.hIdx]
        res == queryCalendarEvents(status, body, RangeStart(r.now), RangeEnd(r.now))
        r1 == IF res.success
              THEN [r EXCEPT !.allEvents = @ \o res.events,
                             !.successUrl = RecordSuccessUrl(@, homeUrl)]
              ELSE r
        next == IF r.cIdx < Len(r.calendars)
                THEN [r |-> [r1 EXCEPT !.cIdx = @ + 1,
                                !.req = Report(resolveCalendarUrl(
                                           homeUrl, r.calendars[r.cIdx + 1].href))],
                      resp |-> NoResp]
                ELSE IF BreakAfterHome(r1.allEvents)
                     THEN AfterLoop([r1 EXCEPT !.calendars = <<>>, !.cIdx = 0])
                     ELSE NextHome(r1)
    IN  /\ r.pc = "query"
        /\ run' = [run EXCEPT ![s] = next.r]
        /\ resp' = [resp EXCEPT ![s] = next.resp]
        /\ ghost' = [ghost EXCEPT ![s] =
              [@ EXCEPT !.returned = IF next.r.pc \in {"discover", "query"} THEN 0
                                     ELSE Len(r1.allEvents),
                        !.firstEventHome =
                            IF @ = 0 /\ IsOk(status)
                               /\ FilterWindow(body, RangeStart(r.now), RangeEnd(r.now)) # <<>>
                            THEN r.hIdx ELSE @,
                        !.probes = IF next.r.pc = "discover"
                                   THEN Append(@, next.r.req.url) ELSE @,
                        !.reports = IF next.r.pc # "query" THEN <<>>
                                    ELSE Append(@, [success |-> res.success,
                                                    body |-> IF res.success THEN body ELSE <<>>]),
                        !.failed = IF next.r.pc = "discover" THEN 0
                                   ELSE IF @ = 0 /\ ~res.success THEN r.cIdx ELSE @,
                        !.received = IF next.r.pc = "discover" THEN 0
                                     ELSE IF res.success THEN @ + Len(body) ELSE @]]
        /\ UNCHANGED <<clock, accounts, rows, server, tasks, reply, page, parser>>

\* findFirst for events[eIdx]
Find(s) ==
    LET r == run[s]
        found == FindFirst(r.account.id, r.events[r.eIdx].id)
    IN  /\ r.pc = "find"
        /\ \E e \in (IF found = {} THEN {None} ELSE found) :
              run' = [run EXCEPT ![s] = [r EXCEPT !.existingEvent = e, !.pc = "write"]]
        /\ UNCHANGED <<clock, accounts, rows, resp, ghost, server, tasks, reply, page, parser>>

\* faulty variant: the row is created whether or not findFirst found one
Write_AlwaysCreate(s) ==
    LET r == run[s]
        event == r.events[r.eIdx]
    IN  /\ r.pc = "write"
        /\ rows' = rows \cup {CreateRow(FreshRowId, r.account.id, event)}
        /\ run' = [run EXCEPT ![s] =
              [r EXCEPT !.existingEvent = None, !.syncedEvents = @ + 1,
                        !.eIdx = IF r.eIdx < Len(r.events) THEN @ + 1 ELSE @,
                        !.pc = IF r.eIdx < Len(r.events) THEN "find"
                               ELSE IF NeedsUrlUpdate(r.successUrl, r.account.serverUrl)
                                    THEN "saveUrl" ELSE "stamp"]]
        /\ UNCHANGED <<clock, accounts, resp, ghost, server, tasks, reply, page, parser>>

\* update or create for events[eIdx], syncedEvents.push, the next iteration
Write(s) ==
    LET r == run[s]
        event == r.events[r.eIdx]
    IN  /\ r.pc = "write"
        /\ rows' = IF r.existingEvent # None
                   THEN {IF x.id = r.existingEvent.id THEN UpdateRow(x, event) ELSE x : x \in rows}
                   ELSE rows \cup {CreateRow(FreshRowId, r.account.id, event)}
        /\ run' = [run EXCEPT ![s] =
              [r EXCEPT !.existingEvent = None, !.syncedEvents = @ + 1,
                        !.eIdx = IF r.eIdx < Len(r.events) THEN @ + 1 ELSE @,
                        !.pc = IF r.eIdx < Len(r.events) THEN "find"
                               ELSE IF NeedsUrlUpdate(r.successUrl, r.account.serverUrl)
                                    THEN "saveUrl" ELSE "stamp"]]
        /\ UNCHANGED <<clock, accounts, resp, ghost, server, tasks, reply, page, parser>>

\* faulty variant: lastSynced is written together with serverUrl
SaveUrl_StampsToo(s) ==
    LET r == run[s]
    IN  /\ r.pc = "saveUrl"
        /\ accounts' = [accounts EXCEPT ![r.user] =
                           [@ EXCEPT !.serverUrl = r.successUrl, !.lastSynced = r.now]]
        /\ run' = [run EXCEPT ![s] = [r EXCEPT !.pc = "stamp"]]
        /\ UNCHANGED <<clock, rows, resp, ghost, server, tasks, reply, page, parser>>

\* prisma.calendarAccount.update({data: {serverUrl: successUrl}})
SaveUrl(s) ==
    LET r == run[s]
    IN  /\ r.pc = "saveUrl"
        /\ accounts' = [accounts EXCEPT ![r.user] = [@ EXCEPT !.serverUrl = r.successUrl]]
        /\ run' = [run EXCEPT ![s] = [r EXCEPT !.pc = "stamp"]]
        /\ UNCHANGED <<clock, rows, resp, ghost, server, tasks, reply, page, parser>>

\* faulty variant: lastSynced is taken from the clock when the run ends
Stamp_AtResponseTime(s) ==
    LET r == run[s]
    IN  /\ r.pc = "stamp"
        /\ accounts' = [accounts EXCEPT ![r.user] = [@ EXCEPT !.lastSynced = clock]]
        /\ run' = [run EXCEPT ![s] = [r EXCEPT !.pc = "done"]]
        /\ resp' = [resp EXCEPT ![s] = Success(r.syncedEvents, clock)]
        /\ UNCHANGED <<clock, rows, ghost, server, tasks, reply, page, parser>>

\* prisma.calendarAccount.update({data: {lastSynced: now}}) and the response
Stamp(s) ==
    LET r == run[s]
    IN  /\ r.pc = "stamp"
        /\ accounts' = [accounts EXCEPT ![r.user] = [@ EXCEPT !.lastSynced = r.now]]
        /\ run' = [run EXCEPT ![s] = [r EXCEPT !.pc = "done"]]
        /\ resp' = [resp EXCEPT ![s] = Success(r.syncedEvents, r.now)]
        /\ UNCHANGED <<clock, rows, ghost, server, tasks, reply, page, parser>>

\* faulty variant: lastSynced is stamped although the store call threw
StoreFails_Stamps(s) ==
    LET r == run[s]
    IN  /\ r.pc \in {"find", "write", "saveUrl", "stamp"}
        /\ accounts' = [accounts EXCEPT ![r.user] = [@ EXCEPT !.lastSynced = r.now]]
        /\ run' = [run EXCEPT ![s] = [r EXCEPT !.pc = "done"]]
        /\ resp' = [resp EXCEPT ![s] = Failure("failed")]
        /\ ghost' = [ghost EXCEPT ![s] = [@ EXCEPT !.threw = r.pc]]
        /\ UNCHANGED <<clock, rows, server, tasks, reply, page, parser>>

\* The awaited store call (findFirst, update / create, either account update)
\* throws: nothing is written by it, the catch block answers 500 "Failed to
\* sync calendar".
StoreFails(s) ==
    LET r == run[s]
    IN  /\ r.pc \in {"find", "write", "saveUrl", "stamp"}
        /\ run' = [run EXCEPT ![s] = [r EXCEPT !.pc = "done"]]
        /\ resp' = [resp EXCEPT ![s] = Failure("failed")]
        /\ ghost' = [ghost EXCEPT ![s] = [@ EXCEPT !.threw = r.pc]]
        /\ UNCHANGED <<clock, accounts, rows, server, tasks, reply, page, parser>>

\* the response is delivered and the invocation is over
EndRun(s) ==
    /\ run[s].pc = "done"
    /\ run' = [run EXCEPT ![s] = IdleRun]
    /\ resp' = [resp EXCEPT ![s] = NoResp]
    /\ ghost' = [ghost EXCEPT ![s] = IdleGhost]
    /\ UNCHANGED <<clock, accounts, rows, server, tasks, reply, parser>>

\* the response reaches another client than the settings modal
Finish(s) == EndRun(s) /\ UNCHANGED page

(************************ the calendar settings modal **********************)
\* object.name in JavaScript: the value in a set, the empty set if the object
\* has no such property (undefined)
Field(object, name) == IF name \in DOMAIN object THEN {object[name]} ELSE {}

\* GET /api/calendar-account: null, or the account without its password
GET(u) ==
    IF accounts[u] = None THEN None
    ELSE [id |-> accounts[u].id, serverUrl |-> accounts[u].serverUrl,
          username |-> accounts[u].username, color |-> accounts[u].color,
          lastSynced |-> accounts[u].lastSynced]

\* the text "Never"
Never == {}
\* account.lastSyncedAt ? new Date(account.lastSyncedAt).toLocaleString() : "Never"
\* the instant that is shown; undefined and null are falsy
LastSynced(account) == Field(account, "lastSyncedAt") \ {NeverSynced}

\* useEffect on isOpen: fetchAccount, which replaces account by the GET's body
OpenModal ==
    /\ ~page.isOpen
    /\ page' = [page EXCEPT !.isOpen = TRUE, !.account = GET(PageUser)]
    /\ UNCHANGED <<clock, accounts, rows, run, resp, ghost, server, tasks, reply, parser>>

\* onClose, and the effect's setError(null)
CloseModal ==
    /\ page.isOpen
    /\ page' = [page EXCEPT !.isOpen = FALSE, !.error = FALSE]
    /\ UNCHANGED <<clock, accounts, rows, run, resp, ghost, server, tasks, reply, parser>>

\* faulty variant: the Sync button is not disabled while a sync is running
handleSync_NotDisabled(s) ==
    /\ page.isOpen
    /\ page.account # None
    /\ page' = [page EXCEPT !.syncing = TRUE]
    /\ StartRun(s, PageUser)

\* a click on Sync (rendered with an account, disabled while syncing):
\* setSyncing(true) and the POST /api/sync, served in slot s
handleSync(s) ==
    /\ page.isOpen
    /\ page.account # None
    /\ ~page.syncing
    /\ page' = [page EXCEPT !.syncing = TRUE]
    /\ StartRun(s, PageUser)

\* the rest of handleSync once the response is there: fetchAccount if res.ok,
\* setError otherwise, setSyncing(false) in either case
SyncReturns(s) ==
    /\ page' = IF resp[s].kind = "success"
               THEN [page EXCEPT !.account = GET(PageUser), !.syncing = FALSE]
               ELSE [page EXCEPT !.error = TRUE, !.syncing = FALSE]
    /\ EndRun(s)

(**************************** specifications *******************************)
\* Requests served one at a time, against a server that answers every probe
\* and query in any way; the REPORT bodies are those of SearchBodies.
Next ==
    \/ Tick
    \/ \E u \in SoleUser, url \in ServerUrls : CreateAccount(u, url)
    \/ \E u \in SoleUser : DeleteAccount(u)
    \/ SyncUnauthorized(1)
    \/ \E u \in SoleUser : SyncStart(1, u)
    \/ \E rsp \in PropfindResponses : Discover(1, rsp.status, rsp.listing)
    \/ \E rsp \in SearchReports : Query(1, rsp.status, rsp.body)
    \/ Find(1)
    \/ Write(1)
    \/ SaveUrl(1)
    \/ Stamp(1)
    \/ Finish(1)

Spec == Init /\ [][Next]_vars

\* Requests served one at a time, against a server whose REPORTs succeed with
\* any events of the pool that lie inside the window.
NextStore ==
    \/ Tick
    \/ \E u \in SoleUser, url \in ServerUrls : CreateAccount(u, url)
    \/ \E u \in SoleUser : DeleteAccount(u)
    \/ SyncUnauthorized(1)
    \/ \E u \in SoleUser : SyncStart(1, u)
    \/ \E rsp \in StorePropfinds : Discover(1, rsp.status, rsp.listing)
    \/ \E rsp \in StoreReports : Query(1, rsp.status, rsp.body)
    \/ Find(1)
    \/ Write(1)
    \/ SaveUrl(1)
    \/ Stamp(1)
    \/ Finish(1)

SpecStore == Init /\ [][NextStore]_vars

\* The responses of the overlapping-runs specification: one calendar at the
\* first candidate, whose REPORT returns the same one or two events each time.
ConcPropfinds ==
    {rsp \in StorePropfinds : Len(rsp.listing) = 1 /\ rsp.listing[1].href = <<"home", Slash>>}
ConcReports ==
    {rsp \in StoreReports : rsp.body \in { <<EvA1>>, <<EvA1, EvB1>> }}

\* Two invocations of POST /api/sync may be in progress at once: their awaits
\* interleave in any order.
NextConc ==
    \/ Tick
    \/ \E u \in SoleUser, url \in ServerUrls : CreateAccount(u, url)
    \/ \E u \in SoleUser : DeleteAccount(u)
    \/ \E s \in Slots, u \in SoleUser : SyncStart(s, u)
    \/ \E s \in Slots, rsp \in ConcPropfinds : Discover(s, rsp.status, rsp.listing)
    \/ \E s \in Slots, rsp \in ConcReports : Query(s, rsp.status, rsp.body)
    \/ \E s \in Slots : Find(s)
    \/ \E s \in Slots : Write(s)
    \/ \E s \in Slots : SaveUrl(s)
    \/ \E s \in Slots : Stamp(s)
    \/ \E s \in Slots : Finish(s)

SpecConc == Init /\ [][NextConc]_vars

\* Requests served one at a time at one instant, against a server with one
\* calendar whose REPORT returns one VEVENT made of any property lines of the
\* pool.
NextParse ==
    \/ \E u \in SoleUser, url \in ServerUrls : CreateAccount(u, url)
    \/ \E u \in SoleUser : DeleteAccount(u)
    \/ \E u \in SoleUser : SyncStart(1, u)
    \/ \E rsp \in ConcPropfinds : Discover(1, rsp.status, rsp.listing)
    \/ \E body \in VEventBodies : Query(1, 207, body)
    \/ Find(1)
    \/ Write(1)
    \/ SaveUrl(1)
    \/ Stamp(1)
    \/ Finish(1)

SpecParse == Init /\ [][NextParse]_vars

\* A server that answers each request one way for as long as it lives: home
\* URLs /dav/u/ and /caldav/u/ may list one calendar "home/", whose REPORT
\* fails or returns one of IdemBodies; every other URL is answered 404.
IdemHomes ==
    { <<Origin, Slash, "dav", Slash, UserName, Slash>>,
      <<Origin, Slash, "caldav", Slash, UserName, Slash>> }
IdemCalendar == [href |-> <<"home", Slash>>, isCalendar |-> TRUE]
IdemBodies == { <<>>, <<EvA1>>, <<EvA1, EvA2>>, <<EvA1x, EvB1>> }
NotFound == [status |-> 404, listing |-> <<>>, body |-> <<>>]
IdemAnswers ==
    {NotFound} \cup {[status |-> 207, listing |-> <<IdemCalendar>>, body |-> b] : b \in IdemBodies}
    \cup {[status |-> 207, listing |-> <<IdemCalendar>>, body |-> <<>>, reportStatus |-> 404]}
IdemServers == [IdemHomes -> IdemAnswers]

\* the answer of the fixed server to the request in flight
ServerPropfind(url) ==
    IF url \in DOMAIN server
    THEN [status |-> server[url].status, listing |-> server[url].listing]
    ELSE [status |-> 404, listing |-> <<>>]
ServerReport(url) ==
    LET homes == {h \in DOMAIN server :
                     /\ server[h].listing # <<>>
                     /\ url = resolveCalendarUrl(h, server[h].listing[1].href)}
    IN  IF homes = {} THEN [status |-> 404, body |-> <<>>]
        ELSE LET a == server[CHOOSE h \in homes : TRUE]
             IN  IF "reportStatus" \in DOMAIN a
                 THEN [status |-> a.reportStatus, body |-> <<>>]
                 ELSE [status |-> 207, body |-> a.body]

InitIdem ==
    /\ clock = T0
    /\ accounts = [u \in Users |-> None]
    /\ rows = {}
    /\ run = [s \in Slots |-> IdleRun]
    /\ resp = [s \in Slots |-> NoResp]
    /\ ghost = [s \in Slots |-> IdleGhost]
    /\ server \in IdemServers
    /\ tasks = {}
    /\ reply = NoReply
    /\ page = NoPage
    /\ parser = NoCall

\* Requests served one at a time against a fixed server.
NextIdem ==
    \/ Tick
    \/ \E u \in SoleUser, url \in ServerUrls : CreateAccount(u, url)
    \/ \E u \in SoleUser : DeleteAccount(u)
    \/ \E u \in SoleUser : SyncStart(1, u)
    \/ Discover(1, ServerPropfind(run[1].req.url).status, ServerPropfind(run[1].req.url).listing)
    \/ Query(1, ServerReport(run[1].req.url).status, ServerReport(run[1].req.url).body)
    \/ Find(1)
    \/ Write(1)
    \/ SaveUrl(1)
    \/ Stamp(1)
    \/ Finish(1)

SpecIdem == InitIdem /\ [][NextIdem]_vars

\* The REPORT bodies of the window specification: events at the two edges of
\* the window, alone, together, and beside an event well inside it.
WindowBodies ==
    { <<EvEdgeLo>>, <<EvEdgeHi>>, <<EvEdgeLo, EvEdgeHi>>, <<EvEdgeHi, EvA1, EvEdgeLo>> }

\* Requests served one at a time while the clock moves, against a server
\* with one calendar whose REPORT returns events at the edges of the window.
NextWindow ==
    \/ Tick
    \/ \E u \in SoleUser, url \in ServerUrls : CreateAccount(u, url)
    \/ \E u \in SoleUser : DeleteAccount(u)
    \/ \E u \in SoleUser : SyncStart(1, u)
    \/ \E rsp \in ConcPropfinds : Discover(1, rsp.status, rsp.listing)
    \/ \E body \in WindowBodies : Query(1, 207, body)
    \/ Find(1)
    \/ Write(1)
    \/ SaveUrl(1)
    \/ Stamp(1)
    \/ Finish(1)

SpecWindow == Init /\ [][NextWindow]_vars

\* The REPORT bodies of the store-failure specification.
FailBodies == { <<EvA1>>, <<EvA1, EvB1>>, <<EvA1, EvA2>>, <<EvB1, EvA2>> }

\* Requests served one at a time against a store whose calls may throw.
NextFail ==
    \/ Tick
    \/ \E u \in SoleUser, url \in ServerUrls : CreateAccount(u, url)
    \/ \E u \in SoleUser : DeleteAccount(u)
    \/ \E u \in SoleUser : SyncStart(1, u)
    \/ \E rsp \in ConcPropfinds : Discover(1, rsp.status, rsp.listing)
    \/ \E body \in FailBodies : Query(1, 207, body)
    \/ Find(1)
    \/ Write(1)
    \/ SaveUrl(1)
    \/ Stamp(1)
    \/ StoreFails(1)
    \/ Finish(1)

SpecFail == Init /\ [][NextFail]_vars

\* The serverUrl values of the account specification: two URLs and a text
\* that z.string().url() rejects.
AcctUrls ==
    ServerUrls \cup { <<Origin, Slash, "caldav", Slash, UserName>>, <<"not a url">> }

\* Both users and requests without a session use the account route, while
\* the first user synchronises.
NextAcct ==
    \/ Tick
    \/ \E u \in Users \cup {NoUser}, url \in AcctUrls : CreateAccount(u, url)
    \/ \E u \in Users \cup {NoUser} : DeleteAccount(u)
    \/ \E u \in SoleUser : SyncStart(1, u)
    \/ \E rsp \in ConcPropfinds : Discover(1, rsp.status, rsp.listing)
    \/ \E rsp \in ConcReports : Query(1, rsp.status, rsp.body)
    \/ Find(1)
    \/ Write(1)
    \/ SaveUrl(1)
    \/ Stamp(1)
    \/ Finish(1)

SpecAcct == Init /\ [][NextAcct]_vars

\* Both users and requests without a session create, patch and delete tasks.
NextTasks ==
    \/ \E u \in Users \cup {NoUser}, title \in Titles : CreateTask(u, title)
    \/ \E u \in Users \cup {NoUser}, id \in TaskIds, data \in PatchData : PatchTask(u, id, data)
    \/ \E u \in Users \cup {NoUser}, id \in TaskIds : DeleteTask(u, id)

SpecTasks == Init /\ [][NextTasks]_vars

\* The REPORT bodies of the two-user specification.
IsoReports == {rsp \in StoreReports : rsp.body \in { <<EvA1>>, <<EvB1, EvA2>> }}

\* Two users take turns: each uses the account route, runs POST /api/sync
\* on his own account and reads his external events.
NextIso ==
    \/ \E u \in Users, url \in ServerUrls : CreateAccount(u, url)
    \/ \E u \in Users : DeleteAccount(u)
    \/ \E u \in Users \cup {NoUser} : GetExternalEvents(u)
    \/ \E u \in Users : SyncStart(1, u)
    \/ \E rsp \in ConcPropfinds : Discover(1, rsp.status, rsp.listing)
    \/ \E rsp \in IsoReports : Query(1, rsp.status, rsp.body)
    \/ Find(1)
    \/ Write(1)
    \/ SaveUrl(1)
    \/ Stamp(1)
    \/ Finish(1)

SpecIso == Init /\ [][NextIso]_vars

\* The first user creates, completes and deletes tasks and drags them over
\* the page.
NextDrag ==
    \/ \E title \in Titles : CreateTask(PageUser, title)
    \/ \E id \in TaskIds : PatchTask(PageUser, id, [completed |-> TRUE])
    \/ \E id \in TaskIds : DeleteTask(PageUser, id)
    \/ \E id \in TaskIds : DragStart(id)
    \/ \E over \in DropTargets \cup {NoTarget} : DragEnd(over)

SpecDrag == Init /\ [][NextDrag]_vars

\* The responses of the phase specification: a probe finds nothing, one
\* calendar or two; a REPORT is rejected or returns no, one or two events.
PhasePropfinds ==
    {rsp \in PropfindResponses :
        /\ rsp.status \in {207, 404}
        /\ \A i \in 1..Len(rsp.listing) : rsp.listing[i].isCalendar}
PhaseReports ==
    {rsp \in ReportResponses :
        rsp.status \in {207, 401} /\ rsp.body \in { <<>>, <<EvA1>>, <<EvA1, EvB1>> }}

\* Requests served one at a time against a server that answers in any of
\* these ways and a store whose calls may throw.
NextPhase ==
    \/ \E u \in SoleUser, url \in ServerUrls : CreateAccount(u, url)
    \/ \E u \in SoleUser : DeleteAccount(u)
    \/ SyncUnauthorized(1)
    \/ \E u \in SoleUser : SyncStart(1, u)
    \/ \E rsp \in PhasePropfinds : Discover(1, rsp.status, rsp.listing)
    \/ \E rsp \in PhaseReports : Query(1, rsp.status, rsp.body)
    \/ Find(1)
    \/ Write(1)
    \/ SaveUrl(1)
    \/ Stamp(1)
    \/ StoreFails(1)
    \/ Finish(1)

SpecPhase == Init /\ [][NextPhase]_vars

\* The responses of the modal specification: a probe finds nothing or one
\* calendar; its REPORT is rejected or returns one event.
ModalPropfinds == {rsp \in PhasePropfinds : Len(rsp.listing) <= 1}
ModalReports == {rsp \in PhaseReports : rsp.body = <<EvA1>>}

\* The settings modal of one user: every POST /api/sync comes from its Sync
\* button.
NextModal ==
    \/ Tick
    \/ \E url \in ServerUrls : CreateAccount(PageUser, url)
    \/ DeleteAccount(PageUser)
    \/ OpenModal
    \/ CloseModal
    \/ \E s \in Slots : handleSync(s)
    \/ \E s \in Slots, rsp \in ModalPropfinds : Discover(s, rsp.status, rsp.listing)
    \/ \E s \in Slots, rsp \in ModalReports : Query(s, rsp.status, rsp.body)
    \/ \E s \in Slots : Find(s)
    \/ \E s \in Slots : Write(s)
    \/ \E s \in Slots : SaveUrl(s)
    \/ \E s \in Slots : Stamp(s)
    \/ \E s \in Slots : SyncReturns(s)

SpecModal == Init /\ [][NextModal]_vars

\* A server that answers each request one way, on which the home URLs /dav/u/
\* and /caldav/u/ may list the same collection /cal/work/ (a root-relative
\* href) or a collection of their own.
SharedCalendar == [href |-> <<Slash, "cal", Slash, "work", Slash>>, isCalendar |-> TRUE]
SharedAnswers ==
    {NotFound} \cup {[status |-> 207, listing |-> <<c>>, body |-> b] :
                        c \in {IdemCalendar, SharedCalendar}, b \in { <<>>, <<EvA1>> }}
SharedServers == [IdemHomes -> SharedAnswers]
\* a URL that is none of the conventional locations, and one that is
SharedUrls == ServerUrls \cup { <<Origin, Slash, "x">> }

InitShared ==
    /\ clock = T0
    /\ accounts = [u \in Users |-> None]
    /\ rows = {}
    /\ run = [s \in Slots |-> IdleRun]
    /\ resp = [s \in Slots |-> NoResp]
    /\ ghost = [s \in Slots |-> IdleGhost]
    /\ server \in SharedServers
    /\ tasks = {}
    /\ reply = NoReply
    /\ page = NoPage
    /\ parser = NoCall

\* the awaited call of the run returns or throws
Returns(s) ==
    \/ \E a \in {ServerPropfind(run[s].req.url)} : Discover(s, a.status, a.listing)
    \/ \E a \in {ServerReport(run[s].req.url)} : Query(s, a.status, a.body)
    \/ Find(s)
    \/ Write(s)
    \/ SaveUrl(s)
    \/ Stamp(s)
    \/ StoreFails(s)

\* Requests served one at a time against a fixed server and a store whose
\* calls may throw; every awaited call returns or throws in the end.
NextShared ==
    \/ \E u \in SoleUser, url \in SharedUrls : CreateAccount(u, url)
    \/ \E u \in SoleUser : DeleteAccount(u)
    \/ \E u \in SoleUser : SyncStart(1, u)
    \/ \E a \in {ServerPropfind(run[1].req.url)} : Discover(1, a.status, a.listing)
    \/ \E a \in {ServerReport(run[1].req.url)} : Query(1, a.status, a.body)
    \/ Find(1)
    \/ Write(1)
    \/ SaveUrl(1)
    \/ Stamp(1)
    \/ StoreFails(1)
    \/ Finish(1)

SpecShared == InitShared /\ [][NextShared]_vars /\ WF_vars(Returns(1))

\* The serverUrl values of the URL specification, all of which z.string().url()
\* accepts: conventional locations with and without the trailing "/", a
\* location of the user's own, the bare origin, and URLs that end with "//".
UrlPool ==
    { <<Origin, Slash, "dav", Slash, UserName>>,
      <<Origin, Slash, "caldav", Slash, UserName, Slash>>,
      <<Origin, Slash, "principals", Slash, "users", Slash, UserName>>,
      <<Origin, Slash, "x">>,
      <<Origin>>,
      <<Origin, Slash, "x", Slash, Slash>>,
      <<Origin, Slash, "dav", Slash, UserName, Slash, Slash>> }
\* The hrefs a multi-status body may carry: root-relative, relative, and
\* absolute (with scheme and host).
UrlHrefs == Hrefs \cup { <<Origin, Slash, "cal", Slash, "work", Slash>> }
UrlPropfinds ==
    {[status |-> 404, listing |-> <<>>]} \cup
    {[status |-> 207, listing |-> l] :
        l \in {c \in SeqsUpTo([href : UrlHrefs, isCalendar : {TRUE}], MaxCals) :
                  \A i, j \in 1..Len(c) : i # j => c[i].href # c[j].href}}
UrlReports == {rsp \in PhaseReports : rsp.body \in { <<>>, <<EvA1>> }}

\* Requests served one at a time for accounts with any serverUrl of the pool.
NextUrls ==
    \/ \E u \in SoleUser, url \in UrlPool : CreateAccount(u, url)
    \/ \E u \in SoleUser : DeleteAccount(u)
    \/ \E u \in SoleUser : SyncStart(1, u)
    \/ \E rsp \in UrlPropfinds : Discover(1, rsp.status, rsp.listing)
    \/ \E rsp \in UrlReports : Query(1, rsp.status, rsp.body)
    \/ Find(1)
    \/ Write(1)
    \/ SaveUrl(1)
    \/ Stamp(1)
    \/ Finish(1)

SpecUrls == Init /\ [][NextUrls]_vars

(*************************** the calendar-data *****************************)
\* The date and duration lines of the calendar-data specification: a UTC
\* start, an all-day start (local midnight), a start that cannot be read; an
\* end after the UTC start, one before it, an all-day end, an end that cannot
\* be read; a duration.
CalLines ==
    { Line("DTSTART", DateValue("utc", T0 + HourSecs)),
      Line("DTSTART", DateValue("date", T0)),
      Line("DTSTART", DateValue("bad", 0)),
      Line("DTEND", DateValue("utc", T0 + 2 * HourSecs)),
      Line("DTEND", DateValue("utc", T0 + HourSecs - 60)),
      Line("DTEND", DateValue("date", T0 + DaySecs)),
      Line("DTEND", DateValue("bad", 0)),
      Line("DURATION", DurationValue(0, 1, 30, 0)) }
Uids == <<"a", "b", "c">>

\* the VEVENTs with the given UID: no property twice
CalVEvents(uid) ==
    {<<Line("UID", TextValue(uid))>> \o v :
        v \in {w \in SeqsUpTo(CalLines, MaxLines - 1) :
                  \A i, j \in 1..Len(w) : i # j => w[i].name # w[j].name}}
\* calendar-data: VEVENTs with UIDs of their own
CalData ==
    {d \in SeqsUpTo(UNION {CalVEvents(Uids[i]) : i \in 1..MaxEvents}, MaxEvents) :
        \A i \in 1..Len(d) : d[i] \in CalVEvents(Uids[i])}

InitCalData ==
    /\ clock = T0
    /\ accounts = [u \in Users |-> None]
    /\ rows = {}
    /\ run = [s \in Slots |-> IdleRun]
    /\ resp = [s \in Slots |-> NoResp]
    /\ ghost = [s \in Slots |-> IdleGhost]
    /\ server \in [vevents : CalData]
    /\ tasks = {}
    /\ reply = NoReply
    /\ page = NoPage
    /\ parser = NoCall

\* Requests served one at a time against a server with one calendar whose
\* REPORT returns the same calendar-data each time.
NextCalData ==
    \/ \E u \in SoleUser, url \in ServerUrls : CreateAccount(u, url)
    \/ \E u \in SoleUser : DeleteAccount(u)
    \/ \E u \in SoleUser : SyncStart(1, u)
    \/ \E rsp \in ConcPropfinds : Discover(1, rsp.status, rsp.listing)
    \/ \E body \in {parseICSEvents(server.vevents)} : Query(1, 207, body)
    \/ Find(1)
    \/ Write(1)
    \/ SaveUrl(1)
    \/ Stamp(1)
    \/ Finish(1)

SpecCalData == InitCalData /\ [][NextCalData]_vars

\* VEVENTs without UID: a title and a start each.
NoUidVEvents ==
    {<<Line("SUMMARY", TextValue(title)), Line("DTSTART", DateValue("utc", t))>> :
        title \in {"A", "B"}, t \in {T0 + HourSecs, T0 + 2 * HourSecs}}
NoUidData == SeqsUpTo(NoUidVEvents, MaxEvents)

InitNoUid ==
    /\ clock = T0
    /\ accounts = [u \in Users |-> None]
    /\ rows = {}
    /\ run = [s \in Slots |-> IdleRun]
    /\ resp = [s \in Slots |-> NoResp]
    /\ ghost = [s \in Slots |-> IdleGhost]
    /\ server \in [vevents : NoUidData]
    /\ tasks = {}
    /\ reply = NoReply
    /\ page = NoPage
    /\ parser = NoCall

\* the owner of the calendar edits it on the CalDAV server between two runs
EditUpstream(vevents) ==
    /\ NoRunActive
    /\ vevents # server.vevents
    /\ server' = [vevents |-> vevents]
    /\ UNCHANGED <<clock, accounts, rows, run, resp, ghost, tasks, reply, page, parser>>

\* Requests served one at a time against a server with one calendar of
\* UID-less events, which change between the runs.
NextNoUid ==
    \/ \E u \in SoleUser, url \in ServerUrls : CreateAccount(u, url)
    \/ \E vevents \in NoUidData : EditUpstream(vevents)
    \/ \E u \in SoleUser : SyncStart(1, u)
    \/ \E rsp \in ConcPropfinds : Discover(1, rsp.status, rsp.listing)
    \/ \E body \in {parseICSEvents(server.vevents)} : Query(1, 207, body)
    \/ Find(1)
    \/ Write(1)
    \/ SaveUrl(1)
    \/ Stamp(1)
    \/ Finish(1)

SpecNoUid == InitNoUid /\ [][NextNoUid]_vars

(************************* the multi-status body ***************************)
\* The prefixes a server may bind to the CalDAV namespace.
CalPrefixes == {"C", "c", "cal"}
DisplayNames == { <<"Work">> }

\* One <D:response> block as the server writes it: at most one <D:href> with
\* text, the elements of its <D:resourcetype>, the prefix that the body binds
\* to urn:ietf:params:xml:ns:caldav, at most one <D:displayname>.
Blocks ==
    [href : {{}} \cup {{h} : h \in Hrefs},
     resourcetype : {{"collection"}, {"collection", "calendar"}},
     prefix : CalPrefixes,
     displayname : {{}} \cup {{n} : n \in DisplayNames}]
Multistatus ==
    {b \in SeqsUpTo(Blocks, MaxCals) :
        \A i, j \in 1..Len(b) : (i # j /\ b[i].href # {}) => b[i].href # b[j].href}

\* hrefMatch, isCalendar and displayName of one response block
ReadResponse(block) ==
    LET href == CHOOSE h \in block.href : TRUE
    IN  [href |-> href,
         isCalendar |-> "calendar" \in block.resourcetype /\ block.prefix \in {"C", "c"},
         displayName |-> IF block.displayname = {} THEN href
                         ELSE CHOOSE n \in block.displayname : TRUE]

\* the loop over the <D:response> blocks: a block without href is passed over
RECURSIVE ReadMultistatus(_)
ReadMultistatus(blocks) ==
    IF blocks = <<>> THEN <<>>
    ELSE IF Head(blocks).href = {} THEN ReadMultistatus(Tail(blocks))
    ELSE <<ReadResponse(Head(blocks))>> \o ReadMultistatus(Tail(blocks))

\* A server that answers every PROPFIND with the same status and body.
ListingServers ==
    {a \in [status : {207, 404, TransportFailure}, blocks : Multistatus] :
        a.status = TransportFailure => a.blocks = <<>>}
ListingReports == {rsp \in PhaseReports : rsp.status = 207 /\ rsp.body \in { <<>>, <<EvA1>> }}

InitListing ==
    /\ clock = T0
    /\ accounts = [u \in Users |-> None]
    /\ rows = {}
    /\ run = [s \in Slots |-> IdleRun]
    /\ resp = [s \in Slots |-> NoResp]
    /\ ghost = [s \in Slots |-> IdleGhost]
    /\ server \in ListingServers
    /\ tasks = {}
    /\ reply = NoReply
    /\ page = NoPage
    /\ parser = NoCall

\* Requests served one at a time against a server with a fixed multi-status body.
NextListing ==
    \/ \E u \in SoleUser, url \in ServerUrls : CreateAccount(u, url)
    \/ \E u \in SoleUser : DeleteAccount(u)
    \/ \E u \in SoleUser : SyncStart(1, u)
    \/ \E listing \in {ReadMultistatus(server.blocks)} : Discover(1, server.status, listing)
    \/ \E rsp \in ListingReports : Query(1, rsp.status, rsp.body)
    \/ Find(1)
    \/ Write(1)
    \/ SaveUrl(1)
    \/ Stamp(1)
    \/ Finish(1)

SpecListing == InitListing /\ [][NextListing]_vars

(************************ the parsing functions ****************************)
\* Most lines in one iCalendar text.
MaxTokens == 5

\* a result not yet returned / the result x
Pending == <<>>
Returned(x) == <<x>>

\* The lines of the VEVENTs that are read line by line.
EventLines ==
    CalLines \cup
    { Line("DTSTART", HintedValue("utc", T0 + HourSecs, "DATE")),
      Line("DTEND", DateValue("baddate", 0)),
      Line("DURATION", BadDuration) }
NewData == [summary |-> "", start |-> NoDate, end |-> NoDate, isAllDay |-> FALSE, uid |-> ""]
EventCalls ==
    [fn : {"parseSingleVEvent"}, lines : SeqsUpTo(EventLines, MaxLines), pos : {0},
     data : {NewData}, result : {Pending}]

\* The DURATION texts: with and without sign, weeks, days, "T" and time parts.
DurationTexts ==
    {DurationText(sign, weeks, days, hasT, hours, minutes, seconds) :
        sign \in {"", "-"}, weeks \in {Absent, 1}, days \in {Absent, 0, 2},
        hasT \in BOOLEAN, hours \in {Absent, 1}, minutes \in {Absent, 30},
        seconds \in {Absent, 5}}
DurationCalls ==
    [fn : {"addDuration"}, startDate : {T0, T0 + HourSecs}, text : DurationTexts,
     result : {Pending}]

\* The DTSTART / DTEND values, each with any VALUE parameter.
DateTexts ==
    {HintedValue(form, t, hint) :
        form \in {"utc", "local", "other", "bad", "baddate"}, t \in {T0, T0 + HourSecs},
        hint \in {"", "DATE", "DATE-TIME"}}
    \cup {HintedValue("date", t, hint) :
             t \in {T0, T0 + DaySecs}, hint \in {"", "DATE", "DATE-TIME"}}
DateCalls == [fn : {"parseICalDate"}, value : DateTexts, result : {Pending}]

\* The iCalendar texts: BEGIN:VEVENT, END:VEVENT and two DTSTART lines in any order.
Tokens ==
    { BeginVEvent, EndVEvent,
      Line("DTSTART", DateValue("utc", T0 + HourSecs)),
      Line("DTSTART", DateValue("utc", T0 + 2 * HourSecs)) }
TextCalls == [fn : {"parseICSEvents"}, text : SeqsUpTo(Tokens, MaxTokens), result : {Pending}]

InitCalls ==
    /\ clock = T0
    /\ accounts = [u \in Users |-> None]
    /\ rows = {}
    /\ run = [s \in Slots |-> IdleRun]
    /\ resp = [s \in Slots |-> NoResp]
    /\ ghost = [s \in Slots |-> IdleGhost]
    /\ server = NoServer
    /\ tasks = {}
    /\ reply = NoReply
    /\ page = NoPage
    /\ parser \in EventCalls \cup DurationCalls \cup DateCalls \cup TextCalls

\* one turn of lines.forEach in parseSingleVEvent
ReadNextLine ==
    /\ parser.fn = "parseSingleVEvent"
    /\ parser.pos < Len(parser.lines)
    /\ parser' = [parser EXCEPT !.pos = @ + 1,
                                !.data = ReadLine(@, parser.lines[parser.pos + 1])]
    /\ UNCHANGED <<clock, accounts, rows, run, resp, ghost, server, tasks, reply, page>>

\* parseSingleVEvent returns once every line is read
ReturnEvent ==
    /\ parser.fn = "parseSingleVEvent"
    /\ parser.pos = Len(parser.lines)
    /\ parser.result = Pending
    /\ parser' = [parser EXCEPT !.result = Returned(parseSingleVEvent(parser.lines))]
    /\ UNCHANGED <<clock, accounts, rows, run, resp, ghost, server, tasks, reply, page>>

\* addDuration(startDate, durationStr) returns
ReturnDuration ==
    /\ parser.fn = "addDuration"
    /\ parser.result = Pending
    /\ parser' = [parser EXCEPT !.result =
                     Returned(addDuration(parser.startDate, MatchDuration(parser.text)))]
    /\ UNCHANGED <<clock, accounts, rows, run, resp, ghost, server, tasks, reply, page>>

\* parseICalDate(value, params) returns
ReturnDate ==
    /\ parser.fn = "parseICalDate"
    /\ parser.result = Pending
    /\ parser' = [parser EXCEPT !.result = Returned(parseICalDate(parser.value))]
    /\ UNCHANGED <<clock, accounts, rows, run, resp, ghost, server, tasks, reply, page>>

\* parseICSEvents(icsText) returns: the bodies it cut out and their events
ReturnEvents ==
    /\ parser.fn = "parseICSEvents"
    /\ parser.result = Pending
    /\ parser' = [parser EXCEPT !.result =
                     Returned([bodies |-> SplitVEvents(parser.text),
                               events |-> parseICSEvents(SplitVEvents(parser.text))])]
    /\ UNCHANGED <<clock, accounts, rows, run, resp, ghost, server, tasks, reply, page>>

NextCalls ==
    \/ ReadNextLine
    \/ ReturnEvent
    \/ ReturnDuration
    \/ ReturnDate
    \/ ReturnEvents

SpecCalls == InitCalls /\ [][NextCalls]_vars

(******************************* claims ************************************)
PastLoop(s) == run[s].pc \in {"find", "write", "saveUrl", "stamp", "done"}
Synced(s) == run[s].pc = "done" /\ resp[s].kind = "success"
RowsOf(rs, accountId) == {x \in rs : x.accountId = accountId}

\* C1: a discovery probe or an event query answered 401 or 403 ends the run
\* at once with an authentication error of its own kind; no further candidate
\* is probed and nothing is written.
C1_AuthRejectionEndsRun ==
    [][\A s \in Slots, st \in {401, 403} :
          (Discover(s, st, <<>>) \/ Query(s, st, <<>>))
             => /\ run'[s].pc = "done"
                /\ resp'[s].kind = "auth-error"
                /\ ghost'[s].probes = ghost[s].probes
                /\ rows' = rows /\ accounts' = accounts]_vars

\* C2: the candidates are probed in list order; once the calendars of one
\* home URL have contributed an event no later candidate is probed or queried;
\* a home URL whose calendars contribute no event does not end the search.
C2_FirstHomeWithEventsWins ==
    \A s \in Slots :
        LET r == run[s]
            g == ghost[s]
        IN  /\ Len(g.probes) <= Len(r.homeUrls)
            /\ \A i \in 1..Len(g.probes) : g.probes[i] = r.homeUrls[i]
            /\ r.pc = "query" => r.hIdx = Len(g.probes)
            /\ g.firstEventHome # 0 => Len(g.probes) = g.firstEventHome
            /\ (PastLoop(s) /\ r.account # None /\ g.firstEventHome = 0)
                  => g.probes = r.homeUrls

\* a run that went on past a home URL with calendars but no events, and
\* stopped at the later one that returned events
C2_Witness ==
    /\ Synced(1)
    /\ ghost[1].firstCalHome = 1
    /\ ghost[1].firstEventHome = 2
    /\ Len(ghost[1].probes) = 2
    /\ Len(run[1].homeUrls) > 2

\* C3: when no candidate yields a calendar the run fails with "no calendars
\* found" and leaves the ExternalEvent rows and the account as they were.
C3_NoCalendarsFails ==
    \A s \in Slots :
        (run[s].pc = "done" /\ run[s].account # None /\ ~ghost[s].sawCalendars)
           => /\ resp[s].kind = "no-calendars"
              /\ ghost[s].probes = run[s].homeUrls
              /\ rows = ghost[s].preRows
              /\ accounts = ghost[s].preAccounts

C3_Witness ==
    /\ run[1].pc = "done"
    /\ resp[1].kind = "no-calendars"
    /\ rows # {}
    /\ accounts["u1"].lastSynced # NeverSynced
    /\ ~ghost[1].sawCalendars

\* The first candidate that discovered calendars (0: none), the number of
\* events inside the window its queries returned, and whether their
\* identifiers are pairwise distinct.
FirstCalEvents(s) ==
    IF ghost[s].firstEventHome = ghost[s].firstCalHome THEN ghost[s].returned ELSE 0
DistinctIds(events) ==
    \A i, j \in 1..Len(events) : i # j => events[i].id # events[j].id
FirstCalDistinct(s) ==
    ghost[s].firstEventHome = ghost[s].firstCalHome
       => (DistinctIds(run[s].events) /\ Len(run[s].events) = ghost[s].returned)

\* C4 as stated: if candidate k is the first to discover calendars and its
\* queries (one of them at least answered) return n events inside the window
\* with distinct identifiers, the run succeeds with syncedEvents = n and
\* serverUrl becomes candidate k.
C4_Original ==
    \A s \in Slots :
        (/\ run[s].pc = "done" /\ ghost[s].firstCalHome # 0 /\ FirstCalDistinct(s)
         /\ run[s].successUrl = run[s].homeUrls[ghost[s].firstCalHome])
           => /\ resp[s].kind = "success"
              /\ resp[s].syncedEvents = FirstCalEvents(s)
              /\ accounts[run[s].user].serverUrl = run[s].homeUrls[ghost[s].firstCalHome]

\* C4 amended: the same, for n >= 1.
C4_FirstCalendarHomeSynced ==
    \A s \in Slots :
        (/\ run[s].pc = "done" /\ ghost[s].firstCalHome # 0
         /\ FirstCalDistinct(s) /\ FirstCalEvents(s) >= 1)
           => /\ resp[s].kind = "success"
              /\ resp[s].syncedEvents = FirstCalEvents(s)
              /\ accounts[run[s].user].serverUrl = run[s].homeUrls[ghost[s].firstCalHome]

\* candidate 1 has no calendars, candidate 2 has calendars with two events
C4_Witness ==
    /\ Synced(1)
    /\ ghost[1].firstCalHome = 2
    /\ FirstCalEvents(1) = 2
    /\ resp[1].syncedEvents = 2
    /\ ghost[1].preAccounts["u1"].serverUrl # run[1].homeUrls[2]
    /\ accounts["u1"].serverUrl = run[1].homeUrls[2]

\* C5: after a successful run in which a home URL produced events, the stored
\* serverUrl is that home URL, also when an earlier candidate had calendars
\* whose queries succeeded without events.
C5_StoredUrlIsEventHome ==
    \A s \in Slots :
        (Synced(s) /\ ghost[s].firstEventHome # 0)
           => accounts[run[s].user].serverUrl = run[s].homeUrls[ghost[s].firstEventHome]

\* C6: on success lastSynced is the instant captured when the run started and
\* is the lastSyncedAt of the response, also when no event was synced.
C6_LastSyncedIsNow ==
    \A s \in Slots :
        Synced(s) => /\ accounts[run[s].user].lastSynced = ghost[s].startedAt
                     /\ resp[s].lastSyncedAt = ghost[s].startedAt

\* a successful run without events that the clock overtook
C6_Witness ==
    /\ Synced(1)
    /\ resp[1].syncedEvents = 0
    /\ ghost[1].sawCalendars
    /\ clock # ghost[1].startedAt
    /\ accounts["u1"].lastSynced = ghost[1].startedAt

\* C7: without a configured account the run ends at once with "not
\* configured": no request is sent and nothing is written.
C7_NotConfigured ==
    \A s \in Slots :
        (run[s].user # NoUser /\ ghost[s].preAccounts[run[s].user] = None)
           => /\ run[s].pc = "done"
              /\ resp[s].kind = "not-configured"
              /\ ghost[s].probes = <<>>
              /\ run[s].req = NoReq
              /\ rows = ghost[s].preRows
              /\ accounts = ghost[s].preAccounts

C7_Witness ==
    /\ run[1].pc = "done"
    /\ run[1].user = "u1"
    /\ resp[1].kind = "not-configured"
    /\ clock > T0

\* C8: each surviving event updates the row of its (account, externalId) in
\* place when there is one and inserts exactly one row otherwise; a run adds
\* as many rows as its events carry identifiers not stored before.
WriteStep(s) == run[s].pc = "write" /\ run'[s].pc # "write"
HoldsEvent(x, event) ==
    /\ x.externalId = event.id /\ x.title = event.summary
    /\ x.startAt = event.start /\ x.endAt = event.end /\ x.isAllDay = event.isAllDay
C8_Upsert ==
    \A s \in Slots :
        WriteStep(s) =>
            LET event == run[s].events[run[s].eIdx]
                acct == run[s].account.id
                old == {x \in rows : x.accountId = acct /\ x.externalId = event.id}
            IN  IF old # {}
                THEN /\ {x.id : x \in rows'} = {x.id : x \in rows}
                     /\ \E x \in old : \E y \in rows' :
                           /\ y.id = x.id /\ y.accountId = acct /\ HoldsEvent(y, event)
                           /\ rows' \ {y} = rows \ {x}
                ELSE \E y \in rows' \ rows :
                           /\ rows' = rows \cup {y}
                           /\ y.accountId = acct /\ HoldsEvent(y, event)
                           /\ \A x \in rows : x.id # y.id
C8_RunAddsNewIds ==
    \A s \in Slots :
        Synced(s) =>
            LET acct == run[s].account.id
                before == RowsOf(ghost[s].preRows, acct)
                new == {run[s].events[i].id : i \in 1..Len(run[s].events)}
                          \ {x.externalId : x \in before}
            IN  Cardinality(RowsOf(rows, acct)) = Cardinality(before) + Cardinality(new)
C8_UpsertByExternalId == [][C8_Upsert]_vars /\ []C8_RunAddsNewIds

\* a run that updated a stored row and inserted another
C8_Witness ==
    /\ Synced(1)
    /\ Len(run[1].events) = 2
    /\ Cardinality(ghost[1].preRows) = 1
    /\ Cardinality(rows) = 2
    /\ ghost[1].preRows \cap rows = {}

\* C9: after any sequence of runs that do not overlap, the store holds at
\* most one ExternalEvent row for each (account, externalId).
C9_OneRowPerExternalId ==
    \A x, y \in rows :
        (x.accountId = y.accountId /\ x.externalId = y.externalId) => x.id = y.id

\* a second run found both of its events stored already
C9_Witness ==
    /\ Synced(1)
    /\ Cardinality(ghost[1].preRows) = 2
    /\ Len(run[1].events) = 2
    /\ run[1].events[1].id # run[1].events[2].id
    /\ Cardinality(rows) = 2

\* C10: when two runs for one account overlap, under every interleaving of
\* their find / insert / update steps the store still holds no two rows with
\* the same (account, externalId).
C10_NoDuplicateUnderOverlap ==
    Cardinality(rows) = Cardinality({<<x.accountId, x.externalId>> : x \in rows})

\* C11: every stored ExternalEvent ends strictly after it starts and belongs
\* to exactly one account, whatever DTSTART / DTEND / DURATION the server sent.
C11_EndAfterStart ==
    \A x \in rows :
        /\ x.endAt > x.startAt
        /\ Cardinality({u \in Users : accounts[u] # None /\ accounts[u].id = x.accountId}) = 1

\* C12: a successful run that follows a successful run of the same instant
\* (the same window) against the same server answers leaves the ExternalEvent
\* rows and the stored serverUrl as the earlier run left them.
C12_SecondRunChangesNothing ==
    \A s \in Slots :
        LET u == run[s].user
        IN  (/\ Synced(s)
             /\ ghost[s].preAccounts[u] # None
             /\ ghost[s].preAccounts[u].lastSynced = ghost[s].startedAt)
               => /\ rows = ghost[s].preRows
                  /\ accounts[u].serverUrl = ghost[s].preAccounts[u].serverUrl

\* a second run of two events, one of them updating a row twice, after the
\* first run had moved serverUrl
C12_Witness ==
    /\ Synced(1)
    /\ ghost[1].preAccounts["u1"] # None
    /\ ghost[1].preAccounts["u1"].lastSynced = ghost[1].startedAt
    /\ resp[1].syncedEvents = 2
    /\ Cardinality(rows) = 1
    /\ accounts["u1"].serverUrl = <<Origin, Slash, "caldav", Slash, UserName, Slash>>

\* C13: a step of a sync run removes no ExternalEvent row and changes no row
\* other than the one of the event it is writing (same account, same
\* externalId); a finished run leaves its account with at least as many rows
\* as it found.
NoAccountRemoved == \A u \in Users : accounts[u] # None => accounts'[u] # None
C13_RowsKept ==
    NoAccountRemoved =>
        \A x \in rows :
            \/ x \in rows'
            \/ \E s \in Slots :
                  /\ run[s].pc = "write"
                  /\ x.accountId = run[s].account.id
                  /\ x.externalId = run[s].events[run[s].eIdx].id
                  /\ \E y \in rows' : /\ y.id = x.id /\ y.accountId = x.accountId
                                      /\ y.externalId = x.externalId
                                      /\ rows' \ {y} = rows \ {x}
C13_CountKept ==
    \A s \in Slots :
        (run[s].pc = "done" /\ run[s].account # None)
           => Cardinality(RowsOf(rows, run[s].account.id))
                 >= Cardinality(RowsOf(ghost[s].preRows, run[s].account.id))
C13_NeverPrunes == [][C13_RowsKept]_vars /\ []C13_CountKept

\* a run that updated the row of its one event and left alone the row of an
\* event the server no longer returns
C13_Witness ==
    /\ Synced(1)
    /\ Len(run[1].events) = 1
    /\ \E x \in rows \cap ghost[1].preRows : x.externalId # run[1].events[1].id
    /\ \E x \in rows \ ghost[1].preRows : \E y \in ghost[1].preRows \ rows : x.id = y.id

\* The events inside the window that the REPORTs at the home URL being
\* queried have returned, the answer rsp to the REPORT in flight included, in
\* calendar order and then in the order of the response.
RECURSIVE ConcatBodies(_)
ConcatBodies(reports) ==
    IF reports = <<>> THEN <<>> ELSE Head(reports).body \o ConcatBodies(Tail(reports))
Gathered(s, rsp) ==
    LET raw == ConcatBodies(ghost[s].reports) \o (IF IsOk(rsp.status) THEN rsp.body ELSE <<>>)
    IN  SelectSeq(raw, LAMBDA e : e.end > RangeStart(run[s].now) /\ e.start < RangeEnd(run[s].now))
FirstsOfKey(G) ==
    {i \in 1..Len(G) : \A j \in 1..(i - 1) : <<G[j].id, G[j].start>> # <<G[i].id, G[i].start>>}

\* C14: when the loop over the home URLs ends, the surviving events are the
\* first event of each (identifier, start) among those gathered at the winning
\* home URL, each as the server sent it, in ascending order of start; they
\* are written one after the other in that order.
C14_LoopEnd ==
    \A s \in Slots, rsp \in ReportResponses :
        (Query(s, rsp.status, rsp.body) /\ run'[s].pc \in {"find", "saveUrl", "stamp"})
           => LET G == Gathered(s, rsp)
                  ev == run'[s].events
              IN  /\ Len(ev) = Cardinality(FirstsOfKey(G))
                  /\ {ev[i] : i \in 1..Len(ev)} = {G[i] : i \in FirstsOfKey(G)}
                  /\ \A i, j \in 1..Len(ev) : i < j => ev[i].start <= ev[j].start
                  /\ run'[s].eIdx = IF ev = <<>> THEN 0 ELSE 1
C14_WriteOrder ==
    \A s \in Slots :
        run[s].pc \in {"find", "write"}
           => /\ run'[s].events = run[s].events
              /\ run[s].eIdx = run[s].syncedEvents + 1
              /\ WriteStep(s)
                   => /\ \E y \in rows' : HoldsEvent(y, run[s].events[run[s].eIdx])
                      /\ run'[s].syncedEvents = run[s].eIdx
                      /\ run'[s].pc = "find" <=> run[s].eIdx < Len(run[s].events)
C14_FirstOfKeyInStartOrder == [][C14_LoopEnd /\ C14_WriteOrder]_vars

\* a run whose calendars returned three events, two of them of one key, and
\* that wrote the two survivors, the earlier first
C14_Witness ==
    /\ Synced(1)
    /\ ghost[1].returned = 3
    /\ Len(run[1].events) = 2
    /\ run[1].events[1].start < run[1].events[2].start
    /\ resp[1].syncedEvents = 2

\* C15: an event of a REPORT body reaches the store only if it ends after
\* windowStart and starts before windowEnd (an event ending at windowStart or
\* starting at windowEnd does not), and every event of the body that does so is
\* kept for writing.
Overlaps(e, now) ==
    e.end > now - WindowBackDays * DaySecs /\ e.start < now + WindowFwdDays * DaySecs
C15_OnlyInside ==
    \A s \in Slots :
        /\ \A i \in 1..Len(run[s].allEvents) : Overlaps(run[s].allEvents[i], run[s].now)
        /\ \A i \in 1..Len(run[s].events) : Overlaps(run[s].events[i], run[s].now)
        /\ run[s].pc = "write" =>
              LET e == run[s].events[run[s].eIdx]
              IN  /\ e.end >= RangeStart(run[s].now) + 1
                  /\ e.start <= RangeEnd(run[s].now) - 1
C15_AllInside ==
    \A s \in Slots, body \in WindowBodies :
        Query(s, 207, body) =>
            LET kept == IF run'[s].pc = "query" THEN run'[s].allEvents ELSE run'[s].events
            IN  \A i \in 1..Len(body) :
                    Overlaps(body[i], run[s].now) <=> \E j \in 1..Len(kept) : kept[j] = body[i]
C15_WindowEdges == []C15_OnlyInside /\ [][C15_AllInside]_vars

\* a run one second after T0 that received the event ending at its
\* windowStart and the event starting one second before its windowEnd, and
\* stored the second only
C15_Witness ==
    /\ Synced(1)
    /\ run[1].now = T0 + 1
    /\ EvEdgeLo.end = RangeStart(run[1].now)
    /\ EvEdgeHi.start = RangeEnd(run[1].now) - 1
    /\ ghost[1].received = 2
    /\ run[1].events = <<EvEdgeHi>>
    /\ ghost[1].preRows = {}
    /\ {x.externalId : x \in rows} = {"hi"}

\* C16: a REPORT that fails (non-2xx status or transport failure) adds no
\* event, does not count as a success and does not end the run with an error;
\* the next calendar of the same home URL is queried next, and the events the
\* other calendars return are stored.
C16_FailedReportSkipped ==
    \A s \in Slots, st \in Statuses \ {207} :
        Query(s, st, <<>>) =>
            LET r == run[s]
            IN  /\ resp'[s] = NoResp
                /\ run'[s].successUrl = r.successUrl
                /\ run'[s].pc \in {"query", "discover"} => run'[s].allEvents = r.allEvents
                /\ run'[s].pc \notin {"query", "discover"}
                      => run'[s].events = UniqueEvents(r.allEvents)
                /\ r.cIdx < Len(r.calendars)
                      => /\ run'[s].pc = "query"
                         /\ run'[s].calendars = r.calendars
                         /\ run'[s].cIdx = r.cIdx + 1
                         /\ run'[s].req = Report(resolveCalendarUrl(
                                              r.homeUrls[r.hIdx], r.calendars[r.cIdx + 1].href))
C16_OthersStored ==
    \A s \in Slots :
        Synced(s) =>
            \A i \in 1..Len(run[s].events) :
                \E x \in RowsOf(rows, run[s].account.id) : x.externalId = run[s].events[i].id
C16_QueryMissNotFatal == [][C16_FailedReportSkipped]_vars /\ []C16_OthersStored

\* the REPORT of the first calendar of a home URL failed, a later calendar of
\* the same home URL returned two events, and both were stored
C16_Witness ==
    /\ Synced(1)
    /\ ghost[1].failed = 1
    /\ ghost[1].received = 2
    /\ resp[1].syncedEvents = 2
    /\ ghost[1].preRows = {}
    /\ Cardinality(rows) = 2

\* C17: when a store call throws while the k-th surviving event is being
\* upserted, the run answers with the failure response; the account
\* (lastSynced, serverUrl) is as it was before the run; the first k-1 events
\* are stored, the k-th and later ones are not written, and no other row has
\* changed.
C17_AbortKeepsEarlierWrites ==
    \A s \in Slots :
        (run[s].pc = "done" /\ ghost[s].threw \in {"find", "write"})
           => LET r == run[s]
                  k == r.eIdx
                  mine == RowsOf(rows, r.account.id)
                  before == RowsOf(ghost[s].preRows, r.account.id)
                  writes(id) == {i \in 1..(k - 1) : r.events[i].id = id}
                  last(id) == CHOOSE i \in writes(id) : \A j \in writes(id) : j <= i
              IN  /\ resp[s] = Failure("failed")
                  /\ r.syncedEvents = k - 1
                  /\ accounts = ghost[s].preAccounts
                  /\ \A i \in 1..(k - 1) : \E x \in mine : x.externalId = r.events[i].id
                  /\ \A x \in mine :
                        IF writes(x.externalId) = {} THEN x \in before
                        ELSE HoldsEvent(x, r.events[last(x.externalId)])
                  /\ Cardinality(mine) = Cardinality(before)
                        + Cardinality({r.events[i].id : i \in 1..(k - 1)}
                                         \ {x.externalId : x \in before})

\* the create of the second of two events threw on a first sync: the first
\* event is stored, the second is not, and the account is untouched although
\* the run had a serverUrl to save
C17_Witness ==
    /\ run[1].pc = "done"
    /\ resp[1] = Failure("failed")
    /\ ghost[1].threw = "write"
    /\ run[1].eIdx = 2 /\ Len(run[1].events) = 2
    /\ run[1].existingEvent = None
    /\ ghost[1].preRows = {}
    /\ {x.externalId : x \in rows} = {run[1].events[1].id}
    /\ run[1].events[2].id # run[1].events[1].id
    /\ NeedsUrlUpdate(run[1].successUrl, accounts["u1"].serverUrl)
    /\ accounts["u1"].lastSynced = NeverSynced

\* C18: a user has at most one calendar account, which is his own. A create
\* for a user who has one answers "already exists" and changes no account and
\* no row; a delete removes the user's account and nobody else's; a delete
\* without an account answers "not found" and changes nothing.
C18_OwnAccount ==
    /\ \A u \in Users : accounts[u] # None => accounts[u].userId = u
    /\ \A u, v \in Users :
          (u # v /\ accounts[u] # None /\ accounts[v] # None) => accounts[u].id # accounts[v].id
C18_CreateDelete ==
    \A u \in Users :
        /\ \A url \in AcctUrls :
              (CreateAccount(u, url) /\ IsUrl(url))
                 => IF accounts[u] # None
                    THEN /\ reply' = Reply("already-exists")
                         /\ accounts' = accounts /\ rows' = rows
                    ELSE /\ reply'.kind = "created"
                         /\ accounts'[u] # None /\ accounts'[u].serverUrl = url
                         /\ \A v \in Users \ {u} : accounts'[v] = accounts[v]
        /\ DeleteAccount(u)
              => IF accounts[u] = None
                 THEN /\ reply' = Reply("account-not-found")
                      /\ accounts' = accounts /\ rows' = rows
                 ELSE /\ reply' = Reply("deleted")
                      /\ accounts'[u] = None
                      /\ \A v \in Users \ {u} : accounts'[v] = accounts[v]
C18_OneAccountPerUser == []C18_OwnAccount /\ [][C18_CreateDelete]_vars

\* a create was refused for a user whose account has been synchronised and
\* has moved its serverUrl; the account and its rows are still there
C18_Witness ==
    /\ reply = Reply("already-exists")
    /\ accounts["u1"] # None
    /\ accounts["u1"].lastSynced # NeverSynced
    /\ accounts["u1"].serverUrl \notin AcctUrls
    /\ RowsOf(rows, accounts["u1"].id) # {}
    /\ accounts["u2"] = None

\* C19: PATCH or DELETE of a task that does not exist, or that another user
\* owns, answers "Task not found" and leaves every task as it was; without a
\* session the answer is "Unauthorized" and the store is not touched.
C19_Refused ==
    \A u \in Users \cup {NoUser}, id \in TaskIds :
        LET foreign == \A t \in tasks : t.id = id => t.userId # u
            refused == IF u = NoUser
                       THEN reply' = Reply("unauthorized") /\ tasks' = tasks
                       ELSE foreign => (reply' = Reply("task-not-found") /\ tasks' = tasks)
        IN  /\ \A data \in PatchData : PatchTask(u, id, data) => refused
            /\ DeleteTask(u, id) => refused
OthersUntouched(u) ==
    \A v \in Users \ {u} :
        /\ accounts'[v] = accounts[v]
        /\ accounts[v] # None => RowsOf(rows', accounts[v].id) = RowsOf(rows, accounts[v].id)
C20_OwnReads ==
    \A s \in Slots :
        run[s].account # None
           => /\ run[s].account.userId = run[s].user
              /\ run[s].existingEvent # None
                    => run[s].existingEvent.accountId = run[s].account.id
C20_OwnEvents(u) ==
    IF u = NoUser THEN reply' = Reply("unauthorized")
    ELSE /\ reply'.kind = "events"
         /\ LET mine == IF accounts[u] = None THEN {} ELSE RowsOf(rows, accounts[u].id)
                ev == reply'.events
            IN  /\ Len(ev) = Cardinality(mine)
                /\ {ev[i] : i \in DOMAIN ev} = {EventView(x) : x \in mine}
                /\ \A i, j \in DOMAIN ev : i < j => ev[i].startAt <= ev[j].startAt
C20_Footprint ==
    /\ \A s \in Slots :
          run'[s] # run[s]
             => OthersUntouched(IF run[s].pc = "idle" THEN run'[s].user ELSE run[s].user)
    /\ \A u \in Users :
          ((\E url \in AcctUrls : CreateAccount(u, url)) \/ DeleteAccount(u))
             => /\ OthersUntouched(u)
                /\ reply'.kind = "created" => reply'.account.userId = u
    /\ \A u \in Users \cup {NoUser} :
          GetExternalEvents(u)
             => /\ accounts' = accounts /\ rows' = rows
                /\ C20_OwnEvents(u)
C20_DataIsolation == []C20_OwnReads /\ [][C20_Footprint]_vars

\* both users have an account with rows, and the answer to GET
\* external-events lists the two rows of the first user and nothing else
C20_Witness ==
    /\ accounts["u1"] # None /\ accounts["u2"] # None
    /\ RowsOf(rows, accounts["u2"].id) # {}
    /\ reply.kind = "events"
    /\ Len(reply.events) = 2
    /\ reply.events[1].startAt < reply.events[2].startAt
    /\ {reply.events[i].id : i \in DOMAIN reply.events}
          = {x.id : x \in RowsOf(rows, accounts["u1"].id)}

\* C21: a scheduled task that is dragged and released over the task list has
\* its scheduledAt cleared.
C21_DragBackClears ==
    [][\A id \in TaskIds :
          (page.activeId = id /\ DragEnd(NoTarget))
             => \A t \in tasks' : t.id = id => t.scheduledAt = NoDate]_vars

\* C21, second half: a task dropped on a date cell is scheduled at 09:00 of
\* that day, a task dropped on a time cell at the cell's hour of its day.
C21_DropSchedules ==
    [][\A id \in TaskIds, over \in DropTargets :
          (page.activeId = id /\ DragEnd(over) /\ (\E t \in tasks : t.id = id))
             => \E t \in tasks' :
                   /\ t.id = id
                   /\ t.scheduledAt
                        = (over.date - (over.date % DaySecs))
                          + HourSecs * (IF over.type = "time" THEN over.hour ELSE DropHour)]_vars

\* C22: once a run has rewritten the account's serverUrl to the home URL H,
\* every later run on that account sends its first PROPFIND to H and, the
\* server answering each request as before, does not rewrite serverUrl.
\* Users submit the URLs of ServerUrls, none of which ends with "/", and a
\* run stores home URLs only, so a stored URL outside ServerUrls was written
\* by a run.
RewrittenByRun(account) == account # None /\ account.serverUrl \notin ServerUrls
C22_RewrittenUrlProbedFirst ==
    \A s \in Slots :
        (run[s].pc # "idle" /\ RewrittenByRun(run[s].account))
           => /\ ghost[s].probes # <<>>
              /\ ghost[s].probes[1] = run[s].account.serverUrl
              /\ run[s].pc # "saveUrl"
              /\ accounts[run[s].user].serverUrl = run[s].account.serverUrl

\* a run that found the stored /caldav/u/ of an earlier run, probed it first,
\* stored an event and ended in success
C22_Witness ==
    /\ Synced(1)
    /\ RewrittenByRun(run[1].account)
    /\ run[1].account.serverUrl = <<Origin, Slash, "caldav", Slash, UserName, Slash>>
    /\ ghost[1].probes = <<run[1].account.serverUrl>>
    /\ resp[1].syncedEvents >= 1

\* C23: a run goes through discovery and querying, then the upserts, then
\* the serverUrl update, then the lastSynced update, never back: no request
\* is in flight once the first row is looked up, no row is written while
\* probes and queries go on, serverUrl is as the run found it until every
\* upsert is done, and lastSynced is as the run found it until the last
\* step.  A response is given only when the run is over; a run that ended in
\* an error from some phase has done nothing of the later phases.
PhaseRank(pc) ==
    CASE pc = "idle" -> 0
      [] pc \in {"discover", "query"} -> 1
      [] pc \in {"find", "write"} -> 2
      [] pc = "saveUrl" -> 3
      [] pc = "stamp" -> 4
      [] pc = "done" -> 5
IsError(rsp) == rsp.kind \notin {"none", "success"}
C23_Forward ==
    \A s \in Slots :
        /\ run[s].pc # "done" => PhaseRank(run'[s].pc) >= PhaseRank(run[s].pc)
        /\ run[s].pc = "done"
              => /\ run'[s].pc \in {"done", "idle"}
                 /\ run'[s] # run[s] => (rows' = rows /\ accounts' = accounts)
C23_PhaseState ==
    \A s \in Slots :
        LET r == run[s]
            u == r.user
            pre == ghost[s].preAccounts[u]
            rank == IF r.pc = "done" /\ ghost[s].threw # "none"
                    THEN PhaseRank(ghost[s].threw) ELSE PhaseRank(r.pc)
        IN  /\ resp[s] # NoResp <=> r.pc = "done"
            /\ (r.pc # "idle" /\ r.account # None)
                  => /\ rank >= 2 => r.req = NoReq
                     /\ rank <= 1 => rows = ghost[s].preRows
                     /\ (rank <= 2 \/ (rank = 3 /\ r.pc = "done"))
                           => accounts[u].serverUrl = pre.serverUrl
                     /\ (rank <= 3 \/ IsError(resp[s]))
                           => accounts[u].lastSynced = pre.lastSynced
            /\ (r.pc = "done" /\ r.account = None) => IsError(resp[s])
C23_PhasesInOrder == []C23_PhaseState /\ [][C23_Forward]_vars

\* the lastSynced update threw after two rows were written and serverUrl was
\* rewritten: the run ended in the error outcome from its last phase
C23_Witness ==
    /\ run[1].pc = "done"
    /\ resp[1] = Failure("failed")
    /\ ghost[1].threw = "stamp"
    /\ Cardinality(rows) = Cardinality(ghost[1].preRows) + 2
    /\ accounts["u1"].serverUrl # ghost[1].preAccounts["u1"].serverUrl
    /\ accounts["u1"].lastSynced = NeverSynced

\* C24 as stated: no collection is queried twice in one run.  The server
\* answers each URL one way, so the collections queried at the home URLs
\* the run has left are those the server lists there.
C24_Original ==
    \A s \in Slots :
        run[s].pc = "query"
           => \A j \in 1..(run[s].hIdx - 1) :
                 LET home == run[s].homeUrls[j]
                     calendars == discoverCalendars(ServerPropfind(home).status,
                                                    ServerPropfind(home).listing)
                 IN  \A i \in 1..Len(calendars) :
                        resolveCalendarUrl(home, calendars[i].href) # run[s].req.url

\* C24: every run that has started ends with a response, and only one; its
\* PROPFINDs go to the candidates in list order, each once, five at most;
\* at each home URL its REPORTs go to the calendars listed there in list
\* order, each entry once; one request at most is in flight.
MaxProbes == 5
C24_Sequential ==
    \A s \in Slots :
        LET r == run[s]
            probes == ghost[s].probes
        IN  /\ Len(probes) <= MaxProbes
            /\ \A i, j \in 1..Len(probes) : i # j => probes[i] # probes[j]
            /\ r.pc \in {"discover", "query"}
                  => /\ Len(probes) = r.hIdx
                     /\ \A i \in 1..Len(probes) : probes[i] = r.homeUrls[i]
            /\ r.pc = "discover" => r.req = Propfind(r.homeUrls[r.hIdx])
            /\ r.pc = "query"
                  => /\ r.cIdx \in 1..Len(r.calendars)
                     /\ Len(ghost[s].reports) = r.cIdx - 1
                     /\ r.req = Report(resolveCalendarUrl(r.homeUrls[r.hIdx],
                                                         r.calendars[r.cIdx].href))
            /\ r.pc \notin {"discover", "query"} => r.req = NoReq
C24_Advance ==
    \A s \in Slots :
        /\ (run[s].pc = "query" /\ run'[s] # run[s])
              => \/ run'[s].pc = "query" /\ run'[s].hIdx = run[s].hIdx
                                        /\ run'[s].cIdx = run[s].cIdx + 1
                 \/ run'[s].pc = "discover" /\ run'[s].hIdx = run[s].hIdx + 1
                 \/ run'[s].pc \notin {"discover", "query"}
        /\ (run[s].pc = "discover" /\ run'[s] # run[s])
              => \/ run'[s].pc = "query" /\ run'[s].hIdx = run[s].hIdx /\ run'[s].cIdx = 1
                 \/ run'[s].pc = "discover" /\ run'[s].hIdx = run[s].hIdx + 1
                 \/ run'[s].pc \notin {"discover", "query"}
        /\ resp[s] # NoResp => resp'[s] \in {resp[s], NoResp}
C24_RunTerminates ==
    /\ []C24_Sequential
    /\ [][C24_Advance]_vars
    /\ \A s \in Slots : (run[s].pc # "idle") ~> (run[s].pc = "done" /\ resp[s] # NoResp)

\* a run that probed all five candidates and queried /cal/work/ at two of
\* them has ended
C24_Witness ==
    /\ run[1].pc = "done"
    /\ Len(ghost[1].probes) = MaxProbes
    /\ resp[1].kind = "success"
    /\ server[<<Origin, Slash, "dav", Slash, UserName, Slash>>].listing = <<SharedCalendar>>
    /\ server[<<Origin, Slash, "caldav", Slash, UserName, Slash>>].listing = <<SharedCalendar>>

\* C25: the candidate list of a run has no URL twice; its first element is
\* the stored URL brought to end with exactly one "/"; the conventional
\* locations /dav/u/, /caldav/u/, /calendars/u/, /principals/users/u/ of the
\* URL's origin follow in this order, the one that equals the first element
\* left out.
RECURSIVE StripSlashes(_)
StripSlashes(url) == IF EndsWithSlash(url) THEN StripSlashes(DropLast(url)) ELSE url
Conventional(username) ==
    << <<Origin, Slash, "dav", Slash, username, Slash>>,
       <<Origin, Slash, "caldav", Slash, username, Slash>>,
       <<Origin, Slash, "calendars", Slash, username, Slash>>,
       <<Origin, Slash, "principals", Slash, "users", Slash, username, Slash>> >>
C25_OrderAndNoDuplicates ==
    \A s \in Slots :
        (run[s].pc # "idle" /\ run[s].account # None)
           => LET urls == run[s].homeUrls
                  first == urls[1]
                  others == SelectSeq(Conventional(run[s].account.username),
                                      LAMBDA c : c # first)
              IN  /\ \A i, j \in 1..Len(urls) : i # j => urls[i] # urls[j]
                  /\ EndsWithSlash(first)
                  /\ StripSlashes(first) = StripSlashes(run[s].account.serverUrl)
                  /\ Tail(urls) = others
C25_CandidateList ==
    /\ C25_OrderAndNoDuplicates
    /\ \A s \in Slots :
          (run[s].pc # "idle" /\ run[s].account # None)
             => run[s].homeUrls[1] = StripSlashes(run[s].account.serverUrl) \o <<Slash>>

\* C26: the URL a REPORT is sent to is the calendar's href itself when the
\* href is absolute, scheme and host of the home URL followed by the href when
\* the href starts with "/", and otherwise the home URL and the href with
\* exactly one "/" between them.
IsAbsolute(href) == Len(href) > 0 /\ href[1] = Origin
Resolved(homeUrl, href) ==
    IF IsAbsolute(href) THEN href
    ELSE IF StartsWithSlash(href) THEN <<homeUrl[1]>> \o href
    ELSE IF EndsWithSlash(homeUrl) THEN homeUrl \o href
    ELSE homeUrl \o <<Slash>> \o href
C26_QueriedUrl(kinds) ==
    \A s \in Slots :
        LET r == run[s]
        IN  (r.pc = "query" /\ IsAbsolute(r.calendars[r.cIdx].href) \in kinds)
               => r.req.url = Resolved(r.homeUrls[r.hIdx], r.calendars[r.cIdx].href)
C26_ResolvedUrl == C26_QueriedUrl(BOOLEAN)
C26_RelativeHrefs == C26_QueriedUrl({FALSE})

\* C27: the calendars of a probe are, in the order of the body, exactly the
\* resources with an href whose resourcetype holds the CalDAV calendar element,
\* each labelled with its displayname or, without one, its href; a status
\* outside 2xx or a transport failure gives no calendars, and the run goes on
\* to the next candidate and never ends in the handler's catch.
RECURSIVE ListedCalendars(_)
ListedCalendars(blocks) ==
    IF blocks = <<>> THEN <<>>
    ELSE LET b == Head(blocks)
             href == CHOOSE h \in b.href : TRUE
         IN  IF b.href # {} /\ "calendar" \in b.resourcetype
             THEN << [href |-> href, isCalendar |-> TRUE,
                      displayName |-> IF b.displayname = {} THEN href
                                      ELSE CHOOSE n \in b.displayname : TRUE] >>
                  \o ListedCalendars(Tail(blocks))
             ELSE ListedCalendars(Tail(blocks))
ExpectedCalendars == IF IsOk(server.status) THEN ListedCalendars(server.blocks) ELSE <<>>
C27_Discovered(expected) ==
    \A s \in Slots :
        LET r == run[s]
        IN  /\ r.pc = "query" => r.calendars = expected
            /\ (r.pc = "discover" /\ r.hIdx > 1 /\ ~r.discoveredAnyCalendar)
                  => expected = <<>>
            /\ (r.pc = "done" /\ r.account # None /\ expected = <<>>)
                  => resp[s] = Failure("no-calendars")
            /\ resp[s] # Failure("failed")
C27_DiscoveredCalendars == C27_Discovered(ExpectedCalendars)
C27_KnownPrefix ==
    (\A i \in 1..Len(server.blocks) : server.blocks[i].prefix \in {"C", "c"})
       => C27_Discovered(ExpectedCalendars)

\* what a VEVENT of the calendar-data says: its UID, the instant of its
\* DTSTART (NoDate when the line is missing or cannot be read), the names of
\* its lines
UidOf(vevent) == vevent[1].value.text
LinesOf(vevent, name) == SelectSeq(vevent, LAMBDA l : l.name = name)
Has(vevent, name) == LinesOf(vevent, name) # <<>>
StartOf(vevent) ==
    IF ~Has(vevent, "DTSTART") THEN NoDate
    ELSE LET v == LinesOf(vevent, "DTSTART")[1].value
         IN  IF v.form = "bad" THEN NoDate
             ELSE IF v.form = "date" THEN v.t - TzOffset ELSE v.t
\* the events of a run and the rows of its account that carry the UID
EventsOf(s, uid) ==
    {e \in {run[s].allEvents[i] : i \in 1..Len(run[s].allEvents)}
            \cup {run[s].events[i] : i \in 1..Len(run[s].events)} : e.id = uid}
StoredOf(uid) == {x \in rows : x.externalId = uid}

\* C28: a VEVENT without a readable DTSTART gives no event and no row; the run
\* that received it still ends with the success response, and every other
\* VEVENT of the calendar-data is stored.
C28_NoStartNoEvent ==
    \A s \in Slots :
        /\ \A i \in 1..Len(server.vevents) :
              LET v == server.vevents[i]
              IN  /\ StartOf(v) = NoDate => (EventsOf(s, UidOf(v)) = {} /\ StoredOf(UidOf(v)) = {})
                  /\ (Synced(s) /\ StartOf(v) # NoDate)
                        => \E x \in StoredOf(UidOf(v)) : x.startAt = StartOf(v)
        /\ (run[s].pc = "done" /\ run[s].account # None) => resp[s].kind = "success"
C28_Witness ==
    /\ Synced(1)
    /\ Len(server.vevents) = 2
    /\ Has(server.vevents[1], "DTSTART") /\ StartOf(server.vevents[1]) = NoDate
    /\ StartOf(server.vevents[2]) # NoDate
    /\ Cardinality(rows) = 1

\* C29: a VEVENT with a start and neither DTEND nor DURATION gives an event
\* that ends 24 hours after its start when the start is a DATE (all-day) and
\* one hour after it otherwise.
C29_SyntheticEnd ==
    \A s \in Slots, i \in 1..Len(server.vevents) :
        LET v == server.vevents[i]
            allDay == LinesOf(v, "DTSTART")[1].value.form = "date"
            end == StartOf(v) + (IF allDay THEN 24 * 60 * 60 ELSE 60 * 60)
        IN  (StartOf(v) # NoDate /\ ~Has(v, "DTEND") /\ ~Has(v, "DURATION"))
               => /\ \A e \in EventsOf(s, UidOf(v)) :
                        e.start = StartOf(v) /\ e.end = end /\ e.isAllDay = allDay
                  /\ \A x \in StoredOf(UidOf(v)) :
                        x.startAt = StartOf(v) /\ x.endAt = end /\ x.isAllDay = allDay
                  /\ Synced(s) => StoredOf(UidOf(v)) # {}
C29_Witness ==
    /\ Synced(1)
    /\ server.vevents =
          << <<Line("UID", TextValue("a")), Line("DTSTART", DateValue("date", T0))>>,
             <<Line("UID", TextValue("b")), Line("DTSTART", DateValue("utc", T0 + HourSecs))>> >>
    /\ \E x \in rows : x.isAllDay /\ x.startAt = T0 - TzOffset
                         /\ x.endAt = T0 - TzOffset + DaySecs
    /\ \E x \in rows : ~x.isAllDay /\ x.endAt = x.startAt + HourSecs

\* C30: a VEVENT with both DTSTART and DTEND gives, if it gives an event, one
\* that ends after it starts.
C30_EndAfterStart ==
    \A s \in Slots, i \in 1..Len(server.vevents) :
        LET v == server.vevents[i]
        IN  (Has(v, "DTSTART") /\ Has(v, "DTEND"))
               => /\ \A e \in EventsOf(s, UidOf(v)) : e.end > e.start
                  /\ \A x \in StoredOf(UidOf(v)) : x.endAt > x.startAt

\* C31: a DURATION line sets the end to start + duration only when no end is
\* known when it is read; an end that a DTEND line has set is left as it is by
\* every later DURATION line.
DurationSeconds(d) ==
    IF d.matches THEN (d.days * 24 + d.hours) * 60 * 60 + d.minutes * 60 + d.seconds ELSE 0
C31_Step ==
    (parser.fn = "parseSingleVEvent" /\ parser'.pos = parser.pos + 1
        /\ parser.lines[parser'.pos].name = "DURATION")
       => LET d == parser.lines[parser'.pos].value
              set == parser.data.start # NoDate /\ parser.data.end = NoDate
          IN  /\ parser'.data.end # parser.data.end => set
              /\ set => parser'.data.end = parser.data.start + DurationSeconds(d)
              /\ parser.data.end # NoDate => parser'.data.end = parser.data.end
C31_Return ==
    (parser.fn = "parseSingleVEvent" /\ parser.result # Pending /\ parser.result[1] # None
        /\ parser.data.end # NoDate)
       => parser.result[1].end = parser.data.end
C31_DurationKeepsKnownEnd == [][C31_Step]_vars /\ []C31_Return
C31_Witness ==
    /\ parser.fn = "parseSingleVEvent"
    /\ parser.result # Pending
    /\ parser.lines = << Line("DTSTART", DateValue("utc", T0 + HourSecs)),
                         Line("DTEND", DateValue("utc", T0 + 2 * HourSecs)),
                         Line("DURATION", DurationValue(0, 1, 30, 0)) >>
    /\ parser.result[1].end = T0 + 2 * HourSecs

\* C32: for a VEVENT with one readable DTSTART, one DURATION that the
\* expression matches and no DTEND, the returned event ends at start + duration
\* whichever of the two lines comes first.
NamesOf(lines) == [i \in 1..Len(lines) |-> lines[i].name]
CountOf(lines, name) == Cardinality({i \in 1..Len(lines) : lines[i].name = name})
C32_OrderIndependent ==
    (/\ parser.fn = "parseSingleVEvent"
     /\ parser.result # Pending
     /\ CountOf(parser.lines, "DTSTART") = 1
     /\ CountOf(parser.lines, "DURATION") = 1
     /\ CountOf(parser.lines, "DTEND") = 0)
       => LET d == (CHOOSE i \in 1..Len(parser.lines) :
                       parser.lines[i].name = "DURATION")
              duration == parser.lines[d].value
              event == parser.result[1]
          IN  (event # None /\ duration.matches)
                 => event.end = event.start + DurationSeconds(duration)
C32_DurationAfterStart ==
    (/\ parser.fn = "parseSingleVEvent"
     /\ parser.result # Pending
     /\ NamesOf(parser.lines) = <<"DTSTART", "DURATION">>)
       => LET event == parser.result[1]
          IN  event # None
                 => event.end = event.start + DurationSeconds(parser.lines[2].value)

\* C33: once a DTSTART or DTEND line with a bare eight-digit value or with
\* VALUE=DATE has been read, the flag stays set while the other lines are
\* read, and the returned event is all-day.
MarksAllDay(line) ==
    /\ line.name \in {"DTSTART", "DTEND"}
    /\ (line.value.form \in {"date", "baddate"} \/ line.value.hint = "DATE")
C33_Step ==
    (parser.fn = "parseSingleVEvent" /\ parser'.pos = parser.pos + 1)
       => /\ parser.data.isAllDay => parser'.data.isAllDay
          /\ MarksAllDay(parser.lines[parser'.pos]) => parser'.data.isAllDay
C33_Return ==
    (parser.fn = "parseSingleVEvent" /\ parser.result # Pending /\ parser.result[1] # None)
       => ((\E i \in 1..Len(parser.lines) : MarksAllDay(parser.lines[i]))
             => parser.result[1].isAllDay)
C33_AllDaySticky == [][C33_Step]_vars /\ []C33_Return
C33_Witness ==
    /\ parser.fn = "parseSingleVEvent"
    /\ parser.result # Pending
    /\ parser.lines = << Line("DTSTART", DateValue("date", T0)),
                         Line("DTEND", DateValue("utc", T0 + 2 * HourSecs)),
                         Line("DTSTART", DateValue("utc", T0 + HourSecs)) >>
    /\ parser.result[1].isAllDay
    /\ parser.result[1].start = T0 + HourSecs

\* C34: the identifier of a VEVENT without UID is made of its start alone:
\* two such events carry the same identifier exactly when their starts are
\* equal; after a successful run two of them at one instant are one stored
\* row; and a row is never moved to another start, so that an event whose
\* start changed upstream is stored as a further row.
UpstreamEvents == parseICSEvents(server.vevents)
RowsWithId(id) == {x \in rows : x.externalId = id}
C34_Ids ==
    \A i, j \in 1..Len(UpstreamEvents) :
        /\ UpstreamEvents[i].id = "event-" \o ToString(UpstreamEvents[i].start)
        /\ (UpstreamEvents[i].id = UpstreamEvents[j].id)
              <=> (UpstreamEvents[i].start = UpstreamEvents[j].start)
C34_SingleRow ==
    Synced(1) =>
        \A i \in 1..Len(UpstreamEvents) :
            /\ Cardinality(RowsWithId(UpstreamEvents[i].id)) = 1
            /\ \A x \in RowsWithId(UpstreamEvents[i].id) : x.startAt = UpstreamEvents[i].start
C34_Step ==
    \A x \in rows : \E y \in rows' :
        y.id = x.id /\ y.externalId = x.externalId /\ y.startAt = x.startAt
C34_IdFromStart == [](C34_Ids /\ C34_SingleRow) /\ [][C34_Step]_vars
C34_Witness ==
    /\ Synced(1)
    /\ Len(UpstreamEvents) = 2
    /\ UpstreamEvents[1].start = UpstreamEvents[2].start
    /\ UpstreamEvents[1].summary # UpstreamEvents[2].summary
    /\ \E x, y \in rows : x.title = y.title /\ x.startAt # y.startAt

\* C35: the bodies cut out of an iCalendar text are, in order, the lines
\* between each BEGIN:VEVENT and its END:VEVENT; a last BEGIN:VEVENT that no
\* END:VEVENT follows gives no body and no event.
Begins(text) == {i \in 1..Len(text) : text[i] = BeginVEvent}
\* the lines from a BEGIN:VEVENT up to the next one, and whether they are closed
FragmentAt(text, i) ==
    LET later == {j \in Begins(text) : j > i}
        stop == IF later = {} THEN Len(text) + 1
                ELSE CHOOSE j \in later : \A k \in later : j <= k
    IN  SubSeq(text, i + 1, stop - 1)
Ends(fragment) == {k \in 1..Len(fragment) : fragment[k] = EndVEvent}
IsClosed(fragment) == Ends(fragment) # {}
BodyOf(fragment) ==
    SubSeq(fragment, 1, (CHOOSE k \in Ends(fragment) : \A l \in Ends(fragment) : k <= l) - 1)
RECURSIVE PairedBodies(_, _)
PairedBodies(text, i) ==
    IF i > Len(text) THEN <<>>
    ELSE IF text[i] = BeginVEvent /\ IsClosed(FragmentAt(text, i))
         THEN <<BodyOf(FragmentAt(text, i))>> \o PairedBodies(text, i + 1)
         ELSE PairedBodies(text, i + 1)
\* every BEGIN:VEVENT but the last is closed before the next one
OnlyLastOpen(text) ==
    \A i \in Begins(text) :
        (\E j \in Begins(text) : j > i) => IsClosed(FragmentAt(text, i))
AllClosed(text) == \A i \in Begins(text) : IsClosed(FragmentAt(text, i))
C35_Split(texts) ==
    (parser.fn = "parseICSEvents" /\ parser.result # Pending /\ texts[parser.text])
       => /\ parser.result[1].bodies = PairedBodies(parser.text, 1)
          /\ Len(parser.result[1].events) <= Len(PairedBodies(parser.text, 1))
C35_SplitEvents == C35_Split([t \in SeqsUpTo(Tokens, MaxTokens) |-> OnlyLastOpen(t)])
C35_ClosedTexts == C35_Split([t \in SeqsUpTo(Tokens, MaxTokens) |-> AllClosed(t)])

\* C36: addDuration returns start + days*86400 + hours*3600 + minutes*60 +
\* seconds for a text of the form P[nD][T[nH][nM][nS]] and the start itself
\* for any other text (a weeks duration, a negative duration).
HasForm(text) ==
    /\ text.sign = "" /\ text.weeks = Absent
    /\ (~text.hasT => (text.hours = Absent /\ text.minutes = Absent /\ text.seconds = Absent))
Part(n) == IF n = Absent THEN 0 ELSE n
C36_AddDuration ==
    (parser.fn = "addDuration" /\ parser.result # Pending)
       => LET text == parser.text
          IN  parser.result[1] =
                 IF HasForm(text)
                 THEN parser.startDate + Part(text.days) * 86400 + Part(text.hours) * 3600
                        + Part(text.minutes) * 60 + Part(text.seconds)
                 ELSE parser.startDate
C36_Witness ==
    /\ parser.fn = "addDuration"
    /\ parser.text = DurationText("", Absent, 2, TRUE, 1, 30, 5)
    /\ parser.startDate = T0
    /\ parser.result = <<T0 + 2 * 86400 + 3600 + 1800 + 5>>

\* C37: parseICalDate reads an eight-digit value as that date's local
\* midnight, date-T-time as local time, date-T-time-Z as UTC; isAllDay is true
\* exactly for an eight-digit value or VALUE=DATE; a value it cannot read
\* gives no date and the same isAllDay.
C37_ByShape ==
    (parser.fn = "parseICalDate" /\ parser.result # Pending)
       => LET value == parser.value
              res == parser.result[1]
          IN  /\ res.isAllDay <=> (value.form \in {"date", "baddate"} \/ value.hint = "DATE")
              /\ value.form = "date"
                    => (res.date + TzOffset = value.t /\ (res.date + TzOffset) % DaySecs = 0)
              /\ value.form = "local" => res.date + TzOffset = value.t
              /\ value.form = "utc" => res.date = value.t
              /\ value.form \in {"bad", "baddate"} => res.date = NoDate
C37_Witness ==
    /\ parser.fn = "parseICalDate"
    /\ parser.value = HintedValue("date", T0, "")
    /\ parser.result = <<[date |-> T0 - TzOffset, isAllDay |-> TRUE]>>

\* C38: the syncedEvents count of a successful run is the number of distinct
\* rows the run inserted or updated, also when the server returned several
\* events of one identifier with different starts.
\* The rows a finished sequential run wrote: those of its account that carry
\* the identifier of one of its events.
WrittenRows(s) ==
    {x \in rows : /\ x.accountId = run[s].account.id
                  /\ \E i \in 1..Len(run[s].events) : run[s].events[i].id = x.externalId}
C38_CountsDistinctRows ==
    Synced(1) => resp[1].syncedEvents = Cardinality(WrittenRows(1))
C38_DistinctIdentifiers ==
    (Synced(1) /\ DistinctIds(run[1].events))
        => resp[1].syncedEvents = Cardinality(WrittenRows(1))

\* C39: a run reports success, stamps lastSynced or rewrites serverUrl only
\* if at least one REPORT of the run succeeded.
\* successUrl is set by the first REPORT that succeeds and never cleared.
SomeReportSucceeded(s) == run[s].successUrl # NoUrl
C39_SuccessNeedsReport == Synced(1) => SomeReportSucceeded(1)
C39_RewriteNeedsReport ==
    /\ run[1].pc = "saveUrl" => SomeReportSucceeded(1)
    /\ (Synced(1) /\ resp[1].syncedEvents > 0) => SomeReportSucceeded(1)

\* C40: when a sync started from the settings modal has returned, the modal's
\* syncing flag is false, and after a successful one 'Last synced' shows the
\* lastSynced the run stored (not Never); at most one sync request of the
\* modal is in flight, and the flag is set exactly while one is.
InFlight == {s \in Slots : run[s].pc # "idle"}
ModalReturns(s) == run[s].pc = "done" /\ run'[s].pc = "idle"
C40_Step ==
    \A s \in Slots :
        ModalReturns(s) =>
            /\ ~page'.syncing
            /\ resp[s].kind = "success" =>
                  /\ LastSynced(page'.account) # Never
                  /\ LastSynced(page'.account) = {accounts[PageUser].lastSynced}
                  /\ accounts[PageUser].lastSynced = resp[s].lastSyncedAt
C40_OneInFlight ==
    /\ Cardinality(InFlight) <= 1
    /\ page.syncing <=> InFlight # {}
C40_ModalAfterSync == [][C40_Step]_vars /\ []C40_OneInFlight
C40_FlagStep == \A s \in Slots : ModalReturns(s) => ~page'.syncing
C40_SyncingFlag == [][C40_FlagStep]_vars /\ []C40_OneInFlight

====
